---- MODULE Spec2Model ----
(***************************************************************************)
(* Model of the hashmarkchronicles data pipeline: the batch scripts that   *)
(* fetch roster and player statistics, gate them against the roster and    *)
(* publish the JSON artifacts under data/.                                 *)
(*                                                                         *)
(* The repository holds several revisions of the same scripts.  Each is    *)
(* modelled as its own program ("script") running over one shared disk:    *)
(*   chain      src/unnamed/part_008          CFBD -> ESPN -> cfbfastR     *)
(*   roster     src/scripts/build_espn_roster.js:1-557   ESPN roster build *)
(*   cfbdroster src/scripts/build_espn_roster.js:914-981 CFBD roster build *)
(*   v3         src/scripts/build_spotlight.js           cached spotlight  *)
(*   espnspot   src/unnamed/part_009                     ESPN spotlight    *)
(*   cfbdspot   src/scripts/build-spotlight.js           CFBD spotlight    *)
(*   cfbdmjs    src/scripts/build-cfbd.mjs               CFBD leaders      *)
(*                                                                         *)
(* Data abstraction.  A player is a small integer key k: its id is k, its  *)
(* canonical name is Nm(k) and its position is PosOf(k).  A roster is the  *)
(* set of tracked players it holds plus a count of further players that    *)
(* no stat row refers to.  A JSON file that is absent reads as empty, as   *)
(* every reader in the source supplies an empty fallback.                  *)
(***************************************************************************)
EXTENDS Integers, Sequences, FiniteSets, TLC

VARIABLES
  roster,      \* data/team/roster.json
  rosterMeta,  \* data/team/roster_meta.json
  spot,        \* data/spotlight_{offense,defense}_{last,season}.json
  featured,    \* data/spotlight_featured.json
  buildMeta,   \* data/meta.json
  provCache,   \* .cache/spotlight/<key>/<provider>/*.json (build_spotlight.js)
  fixture,     \* fixtures/roster_<season>.json
  uka,         \* data/team/uka_roster.json + uka_meta.json
  hist,        \* data/spotlight_history.json (part_002, part_003, part_004)
  script,      \* the program that is running, or "idle"
  pc,          \* its position
  env,         \* its environment variables and flags
  loc,         \* its local variables
  outcome,     \* "none" while running, else Published / CacheRestored / Failed
  exitCode,    \* process exit code of the last finished run
  tried,       \* adapters attempted by the current run, in order
  before,      \* the published files as they were when the run started
  runs         \* number of runs started

disk == <<roster, rosterMeta, spot, featured, buildMeta, provCache>>
\* Files that only the game-week builds write (hist), or no script at all.
static == <<fixture, uka, hist>>
vars == <<roster, rosterMeta, spot, featured, buildMeta, provCache, fixture, uka, hist,
          script, pc, env, loc, outcome, exitCode, tried, before, runs>>

----------------------------------------------------------------------------
(* Bounds of the model *)

MaxRuns == 2

(* Program constants *)

TARGET_SEASON == 2025
ROSTER_MIN == 65
ROSTER_MAX == 150
TakeCap == 50
FeaturedCap == 6
LeaderCap == 5
FeaturedPool == 6
TopK == 3

NoId == 0
NoSeason == 0
PrevSeason == TARGET_SEASON - 1

----------------------------------------------------------------------------
(* Players, names, rows *)

Keys == 1..7

\* The id of a roster player outside Keys.
Filler == 99

\* A name is a player key and a spelling of it; key 0 is the empty string.
Nm(k) == [k |-> k, f |-> "canon"]
NoName == [k |-> 0, f |-> "canon"]

\* String.prototype.toLowerCase
ToLower(nm) == IF nm.f = "caps" THEN [nm EXCEPT !.f = "canon"] ELSE nm

PosOf(k) ==
  CASE k = 1 -> "QB"
    [] k = 2 -> "RB"
    [] k = 3 -> "LB"
    [] k = 4 -> "WR"
    [] k = 5 -> "CB"
    [] k = 6 -> "TE"
    [] OTHER -> "DL"

OffenseCodes == {"QB", "RB", "WR", "TE", "FB", "HB", "TB", "SB", "OT", "OG", "C", "OL"}
DefenseCodes == {"DL", "DE", "DT", "NT", "LB", "OLB", "ILB", "CB", "DB", "S", "FS", "SS",
                 "STAR", "NICKEL"}

POS_SIDE(p) ==
  IF p.pos \in OffenseCodes THEN "offense"
  ELSE IF p.pos \in DefenseCodes THEN "defense"
  ELSE "offense"

\* One entry of a spotlight file.  id is Number(row.id), ath is row.athleteId,
\* espn is the id embedded in the row's ESPN link; NoId where the key is missing.
\* side is the row's own `side` key ("" where the writer stores none).
\* score is the value the writer ranked the row by (0 where it ranks nothing).
Row(id, ath, espn, name, pos, side) ==
  [id |-> id, ath |-> ath, espn |-> espn, name |-> name, pos |-> pos, side |-> side,
   score |-> 0]

Buckets == {"offense_last", "defense_last", "offense_season", "defense_season"}

EmptySpot == [b \in Buckets |-> <<>>]

RECURSIVE FilterSeq(_, _)
FilterSeq(s, keepSet) ==
  IF s = <<>> THEN <<>>
  ELSE IF Head(s) \in keepSet THEN <<Head(s)>> \o FilterSeq(Tail(s), keepSet)
  ELSE FilterSeq(Tail(s), keepSet)

Range(s) == {s[i] : i \in 1..Len(s)}

Min(a, b) == IF a < b THEN a ELSE b

\* Array.prototype.slice(0, n)
Take(n, a) == SubSeq(a, 1, Min(n, Len(a)))

----------------------------------------------------------------------------
(* Disk values *)

\* n players, of which `members` are tracked.  Every row carries its numeric id
\* under the key idKey ("id", or "athleteId" as the CFBD roster build writes it),
\* or no row carries one ("none").  `from` records the season embedded in the
\* payload the rows came from; it is not part of the file.
Roster(n, idKey, members, from) ==
  [n |-> n, idKey |-> idKey, members |-> members, from |-> from]

NoRoster == Roster(0, "id", {}, NoSeason)

\* roster_meta.json: season is Number(meta.season) (NoSeason where the key is
\* missing), reuse is Boolean(meta.lastGoodReuse), year the CFBD build's `year`.
Meta(present, season, source, strict, reuse) ==
  [present |-> present, season |-> season, source |-> source,
   strict |-> strict, reuse |-> reuse, year |-> NoSeason]

NoMeta == Meta(FALSE, NoSeason, "none", TRUE, FALSE)

Featured(shape, rows) == [shape |-> shape, rows |-> rows]

NoFeatured == Featured("none", <<>>)

NoBuildMeta == [present |-> FALSE, mode |-> "none"]

\* spotlight_history.json: last_featured and the counts of the names featured
\* so far (a name that is no key of counts has count 0).  The fallback of a
\* missing file is { last_featured: "", counts: {} }.
Hist(last, counts) == [last |-> last, counts |-> counts]

NoHist == Hist(NoName, [k \in Keys |-> 0])

\* The bytes of the published files: what a reader of data/ can observe.
Published ==
  [roster |-> [n |-> roster.n, idKey |-> roster.idKey, members |-> roster.members],
   rosterMeta |-> rosterMeta, spot |-> spot, featured |-> featured,
   buildMeta |-> buildMeta]

----------------------------------------------------------------------------
(* src/unnamed/part_008: the CFBD -> ESPN -> cfbfastR chain *)

\* A season or last-game row as the chain maps it (part_008:82-88, 113-119).
U(k) == Row(NoId, k, NoId, Nm(k), PosOf(k), POS_SIDE([pos |-> PosOf(k)]))

Long51 == [i \in 1..(TakeCap + 1) |-> U(((i - 1) % 6) + 1)]

\* /player/season answers with one row per player and statistic, and the chain
\* maps every row (part_008:82): the same athlete can come several times.
ChainRows == { <<>>, <<U(1)>>, <<U(1), U(3)>>, <<U(2), U(2), U(5)>>, Long51 }

\* The last game's rows are keyed by athlete in a Map (part_008:106-125).
ChainLastRows == { <<>>, <<U(1)>>, <<U(1), U(3)>>, <<U(2), U(5)>> }

bySide(rows, side) == FilterSeq(rows, {r \in Range(rows) : r.side = side})

\* writeSpotlightFromRows, and the identical tails of buildSpotlightFromESPN and
\* buildSpotlightFromCFBfastR: the four buckets and the featured file.
ChainSpot(offS, defS, offL, defL) ==
  [b \in Buckets |->
     CASE b = "offense_season" -> Take(TakeCap, offS)
       [] b = "defense_season" -> Take(TakeCap, defS)
       [] b = "offense_last" -> Take(TakeCap, offL)
       [] OTHER -> Take(TakeCap, defL)]

writeSpotlightFromRows(rowsAll, rowsLast) ==
  LET offS == bySide(rowsAll, "offense")
      defS == bySide(rowsAll, "defense")
      offL == IF Len(rowsLast) > 0 THEN bySide(rowsLast, "offense") ELSE offS
      defL == IF Len(rowsLast) > 0 THEN bySide(rowsLast, "defense") ELSE defS
  IN  /\ spot' = ChainSpot(offS, defS, offL, defL)
      /\ featured' = Featured("array", Take(FeaturedCap, rowsAll))

\* A process end that always reports success.
FinishZero(result, code) ==
  /\ outcome' = result
  /\ exitCode' = 0
  /\ pc' = "done"

\* The end of a run: its terminal state and the exit code of the process.
Finish(result, code) ==
  /\ outcome' = result
  /\ exitCode' = code
  /\ pc' = "done"

NoLoc == [none |-> TRUE]

DefaultEnv == [strict |-> TRUE, purge |-> TRUE, mode |-> "", flagPurge |-> FALSE]

\* A run begins: the scheduler starts one of the scripts with its environment.
Begin(name, e, first) ==
  /\ script = "idle"
  /\ runs < MaxRuns
  /\ runs' = runs + 1
  /\ script' = name
  /\ env' = e
  /\ pc' = first
  /\ loc' = NoLoc
  /\ outcome' = "none"
  /\ tried' = <<>>
  /\ before' = Published
  /\ UNCHANGED <<disk, static, exitCode>>

\* The process has exited: nothing of it survives but the files it wrote.  The
\* scheduler may start the next run.
Exit ==
  /\ script # "idle"
  /\ pc = "done"
  /\ script' = "idle"
  /\ pc' = "idle"
  /\ loc' = NoLoc
  /\ env' = DefaultEnv
  /\ outcome' = "none"
  /\ exitCode' = 0
  /\ tried' = <<>>
  /\ before' = Published
  /\ UNCHANGED <<disk, static, runs>>

\* A chain that starts at the ESPN adapter whatever FALLBACK_MODE says.
ChainStartAtEspn == Begin("chain", DefaultEnv, "espn")

\* part_008:7, 63-75: FALLBACK_MODE forces one adapter and skips the others.
ChainStart ==
  \E m \in {"", "espn", "cfbfastr"} :
    Begin("chain", [DefaultEnv EXCEPT !.mode = m],
          IF m = "espn" THEN "espn" ELSE IF m = "cfbfastr" THEN "cfbfastr" ELSE "cfbd")

\* What one upstream request yields: a thrown transport error ("transport"), a
\* payload of the wrong shape ("shape"), other endpoint-specific outcomes, or rows.
Res(kind, rows) == [kind |-> kind, rows |-> rows]

Fail(kinds) == {Res(k, <<>>) : k \in kinds}

Rows(lists) == {Res("rows", l) : l \in lists}

\* part_008:78-134: /player/season, /games, the last game's player statistics,
\* then the writes; any throw lands in the catch that starts the ESPN fallback.
ChainCfbd ==
  /\ script = "chain" /\ pc = "cfbd"
  /\ tried' = Append(tried, "cfbd")
  /\ \E season \in Fail({"transport", "shape"}) \cup Rows(ChainRows),
        games \in {"transport", "shape", "none", "game"},
        last \in Fail({"throw", "nonjson", "noteams"}) \cup Rows(ChainLastRows) :
       LET seasonOk == season.kind = "rows"
           gamesOk == games \in {"none", "game"}
           lastOk == games = "none" \/ last.kind # "throw"
           lastPlayers == IF games = "game" THEN last.rows ELSE <<>>
       IN  IF seasonOk /\ gamesOk /\ lastOk
           THEN /\ writeSpotlightFromRows(season.rows, lastPlayers)
                /\ Finish("Published", 0)
                /\ loc' = [source |-> "cfbd", y |-> TARGET_SEASON,
                           fault |-> IF games = "game" /\ last.kind \in {"nonjson", "noteams"}
                                     THEN "shape" ELSE "none"]
           ELSE /\ pc' = "espn"
                /\ UNCHANGED <<spot, featured, outcome, exitCode, loc>>
  /\ UNCHANGED <<roster, rosterMeta, buildMeta, provCache, static, script, env, before, runs>>

\* fallback_unofficial.js:20-42: the roster rows buildSpotlightFromESPN splits.
E(k) == Row(NoId, k, NoId, Nm(k), PosOf(k),
            IF PosOf(k) \in OffenseCodes THEN "offense" ELSE "defense")

EspnRows == { <<>>, <<E(1), E(3)>>, <<E(4), E(5)>> }

\* A throw of the adapter in use: the next adapter's catch takes it, or, with no
\* catch left, the rejection ends the process with a non-zero code.
ChainThrow(next) ==
  IF env.mode = "" /\ next # "none"
  THEN /\ pc' = next
       /\ UNCHANGED <<spot, featured, outcome, exitCode, loc>>
  ELSE /\ Finish("Failed", 1)
       /\ UNCHANGED <<spot, featured, loc>>

\* fallback_unofficial.js:80-98 as called from part_008:64-69 and 136-139.
ChainEspn ==
  /\ script = "chain" /\ pc = "espn"
  /\ tried' = Append(tried, "espn")
  /\ \E team \in {"transport", "notfound", "ok"},
        ros \in Fail({"transport", "shape"}) \cup Rows(EspnRows),
        last \in Fail({"transport", "none"}) \cup Rows(EspnRows) :
       IF team # "ok" \/ ros.kind = "transport" \/ last.kind = "transport"
       THEN ChainThrow("cfbfastr")
       ELSE LET rrows == ros.rows
                lrows == last.rows
                offS == FilterSeq(rrows, {r \in Range(rrows) : r.pos \in OffenseCodes})
                defS == FilterSeq(rrows, {r \in Range(rrows) : r.pos \notin OffenseCodes})
                offL == IF Len(lrows) > 0 THEN bySide(lrows, "offense") ELSE offS
                defL == IF Len(lrows) > 0 THEN bySide(lrows, "defense") ELSE defS
            IN  /\ spot' = ChainSpot(offS, defS, offL, defL)
                /\ featured' = Featured("array", Take(FeaturedCap, rrows))
                /\ Finish("Published", 0)
                /\ loc' = [source |-> "espn", y |-> TARGET_SEASON,
                           fault |-> IF ros.kind = "shape" THEN "shape" ELSE "none"]
  /\ UNCHANGED <<roster, rosterMeta, buildMeta, provCache, static, script, env, before, runs>>

\* fallback_cfbfastr.js:26-35: the first of year, year-1, year-2 whose CSV loads.
safeRosterCSV(csv) ==
  IF csv[1].kind = "rows" THEN [ok |-> TRUE, rows |-> csv[1].rows, y |-> TARGET_SEASON]
  ELSE IF csv[2].kind = "rows" THEN [ok |-> TRUE, rows |-> csv[2].rows, y |-> TARGET_SEASON - 1]
  ELSE IF csv[3].kind = "rows" THEN [ok |-> TRUE, rows |-> csv[3].rows, y |-> TARGET_SEASON - 2]
  ELSE [ok |-> FALSE, rows |-> <<>>, y |-> NoSeason]

NoCsv == Res("transport", <<>>)

CsvYears == { <<NoCsv, NoCsv, NoCsv>>,
              <<Res("rows", <<E(2), E(3)>>), NoCsv, NoCsv>>,
              <<NoCsv, Res("rows", <<E(6), E(7)>>), NoCsv>>,
              <<NoCsv, NoCsv, Res("rows", <<>>)>> }

\* fallback_cfbfastr.js:61-72 as called from part_008:70-75 and 142-144.
ChainCfbfastr ==
  /\ script = "chain" /\ pc = "cfbfastr"
  /\ tried' = Append(tried, "cfbfastr")
  /\ \E csv \in CsvYears :
       LET got == safeRosterCSV(csv)
           offS == bySide(got.rows, "offense")
           defS == bySide(got.rows, "defense")
       IN  IF ~got.ok
           THEN ChainThrow("none")
           ELSE /\ spot' = ChainSpot(offS, defS, offS, defS)
                /\ featured' = Featured("array", Take(FeaturedCap, got.rows))
                /\ Finish("Published", 0)
                /\ loc' = [source |-> "cfbfastr", y |-> got.y, fault |-> "none"]
  /\ UNCHANGED <<roster, rosterMeta, buildMeta, provCache, static, script, env, before, runs>>

----------------------------------------------------------------------------
(* src/scripts/build_espn_roster.js:1-557: the ESPN roster build *)

\* A fetched athlete list: n raw players of which `ids` carry a numeric id,
\* `members` the tracked ones among them (all with ids), `season` the season the
\* payload embeds (NoSeason when extractSeasonFromApi finds none).
Snap(n, ids, members, season) ==
  [n |-> n, ids |-> ids, members |-> members, season |-> season]

NoSnap == Snap(0, 0, {}, NoSeason)

Snaps == { Snap(85, 80, {1, 2, 3, 4, 5, 6}, TARGET_SEASON),
           Snap(40, 40, {1, 3}, TARGET_SEASON),
           Snap(90, 90, {1, 2, 6, 7}, PrevSeason),
           Snap(70, 70, {1, 2, 3}, NoSeason),
           Snap(66, 0, {}, TARGET_SEASON) }

SnapRes(kind, snap) == [kind |-> kind, snap |-> snap]

StrategyResults ==
  {SnapRes(k, NoSnap) : k \in {"transport", "shape"}} \cup {SnapRes("ok", sn) : sn \in Snaps}

\* A roster file read back as a player list (its rows keep their ids).
AsSnap(r) ==
  Snap(r.n, IF r.idKey = "none" THEN 0 ELSE r.n, r.members, r.from)

\* build_espn_roster.js:389-397
isViableRoster(sn) ==
  /\ sn.n >= ROSTER_MIN
  /\ sn.ids * 100 >= 65 * sn.n

\* build_espn_roster.js:376-387
loadFixtureRoster ==
  IF isViableRoster(AsSnap(fixture))
  THEN [ok |-> TRUE, players |-> AsSnap(fixture), detected |-> TARGET_SEASON, source |-> "cache"]
  ELSE [ok |-> FALSE, players |-> NoSnap, detected |-> NoSeason, source |-> "none"]

\* build_espn_roster.js:352-374.  The legacy conversion of lines 361-367 is only
\* reached with an empty roster.json, for which transformLegacyRoster yields null.
loadLastGoodRoster(strict) ==
  IF roster.n > 0 /\ (~strict \/ (rosterMeta.present /\ rosterMeta.season = TARGET_SEASON))
  THEN [ok |-> TRUE, players |-> AsSnap(roster),
        detected |-> IF rosterMeta.present THEN rosterMeta.season ELSE NoSeason,
        source |-> "cache"]
  ELSE loadFixtureRoster

\* build_espn_roster.js:324-350.  The overlap of two player lists is their common
\* tracked players plus the smaller of their untracked counts.
attemptUkaIntersection(players, detected) ==
  LET common == players.members \cap uka.members
      rest == Min(players.n - Cardinality(players.members),
                  uka.n - Cardinality(uka.members))
      size == Cardinality(common) + rest
      allow == detected = TARGET_SEASON \/ uka.from = TARGET_SEASON
  IN  IF uka.n = 0 \/ size = 0 \/ ~allow
      THEN [ok |-> FALSE, players |-> NoSnap, detected |-> NoSeason, source |-> "none"]
      ELSE [ok |-> TRUE, players |-> Snap(size, Min(players.ids, size), common, players.season),
            detected |-> TARGET_SEASON, source |-> "espn+uka"]

\* build_espn_roster.js:459-491: rows without a numeric id are dropped.
normalizeRoster(players) ==
  Roster(players.ids, "id", players.members, players.season)

RosterStart ==
  \E strict \in BOOLEAN, purge \in BOOLEAN :
    Begin("roster", [DefaultEnv EXCEPT !.strict = strict, !.purge = purge], "api")

\* build_espn_roster.js:115-130 with fetchRosterFromApi / fetchRosterFromPage: a
\* strategy that throws, or returns no players, hands over to the next one.
RosterStrategy(name, next) ==
  /\ script = "roster" /\ pc = name
  /\ tried' = Append(tried, name)
  /\ \E res \in StrategyResults :
       IF res.kind = "ok" /\ res.snap.n > 0
       THEN /\ loc' = [players |-> res.snap, detected |-> res.snap.season,
                       source |-> "espn", usedLastGood |-> FALSE]
            /\ pc' = "main"
       ELSE /\ loc' = loc
            /\ pc' = next
  /\ UNCHANGED <<disk, static, script, env, outcome, exitCode, before, runs>>

RosterApi == RosterStrategy("api", "page")

RosterPage == RosterStrategy("page", "lastgood")

\* build_espn_roster.js:132-139: both strategies failed.
RosterLastGood ==
  /\ script = "roster" /\ pc = "lastgood"
  /\ tried' = Append(tried, "cache")
  /\ LET fb == loadLastGoodRoster(env.strict)
     IN  IF fb.ok
         THEN /\ loc' = [players |-> fb.players, detected |-> fb.detected,
                         source |-> fb.source, usedLastGood |-> TRUE]
              /\ pc' = "main"
              /\ UNCHANGED <<outcome, exitCode>>
         ELSE /\ Finish("Failed", 1)
              /\ loc' = loc
  /\ UNCHANGED <<disk, static, script, env, before, runs>>

\* build_espn_roster.js:38-67: what main publishes from, or that it throws.
RosterChoice ==
  LET fail == [ok |-> FALSE, players |-> NoSnap, detected |-> NoSeason,
               source |-> "none", usedLastGood |-> loc.usedLastGood]
      keep == [ok |-> TRUE, players |-> loc.players, detected |-> loc.detected,
               source |-> loc.source, usedLastGood |-> loc.usedLastGood]
      with(fb) == [ok |-> fb.ok, players |-> fb.players, detected |-> fb.detected,
                   source |-> fb.source,
                   usedLastGood |-> loc.usedLastGood \/ (fb.ok /\ fb.source = "cache")]
  IN  IF loc.players.n = 0
      THEN with(loadLastGoodRoster(env.strict))
      ELSE IF env.strict /\ loc.detected # NoSeason /\ loc.detected # TARGET_SEASON
      THEN LET ukaFallback == attemptUkaIntersection(loc.players, loc.detected)
           IN  IF ukaFallback.ok THEN with(ukaFallback)
               ELSE IF env.purge THEN fail
               ELSE IF ~rosterMeta.present \/ rosterMeta.season # TARGET_SEASON THEN fail
               ELSE with(loadLastGoodRoster(TRUE))
      ELSE keep

\* build_espn_roster.js:30-113, after loadRoster returned.
RosterMain ==
  /\ script = "roster" /\ pc = "main"
  /\ LET c == RosterChoice
         normalized == normalizeRoster(c.players)
     IN  IF ~c.ok \/ c.players.n = 0 \/ normalized.n = 0
         THEN /\ Finish("Failed", 1)
              /\ UNCHANGED <<roster, rosterMeta, loc>>
         ELSE /\ roster' = normalized
              /\ rosterMeta' = Meta(TRUE, TARGET_SEASON, c.source, env.strict, c.usedLastGood)
              /\ Finish(IF c.source = "cache" THEN "CacheRestored" ELSE "Published", 0)
              /\ loc' = [players |-> c.players, detected |-> c.detected,
                         source |-> c.source, usedLastGood |-> c.usedLastGood]
  /\ UNCHANGED <<spot, featured, buildMeta, provCache, static, script, env, tried, before, runs>>

----------------------------------------------------------------------------

----------------------------------------------------------------------------
(* src/scripts/build_espn_roster.js:914-981: the CFBD roster build *)

CfbdRosterStart == Begin("cfbdroster", DefaultEnv, "main")

CfbdRosters == { Snap(88, 88, {1, 2, 3, 4}, TARGET_SEASON),
                 Snap(92, 92, {1, 6, 7}, PrevSeason) }

\* /roster for YEAR, then for YEAR - 1 when that is empty or no array; rows are
\* written with athleteId and no id, the metadata with `year` and no season.
\* Every throw is caught as "non-fatal" and the process exits 0.
CfbdRosterMain ==
  /\ script = "cfbdroster" /\ pc = "main"
  /\ tried' = Append(tried, "cfbd")
  /\ \E first \in {SnapRes(k, NoSnap) : k \in {"transport", "shape", "empty"}}
                   \cup {SnapRes("ok", sn) : sn \in CfbdRosters},
        second \in {SnapRes(k, NoSnap) : k \in {"transport", "empty"}}
                   \cup {SnapRes("ok", sn) : sn \in CfbdRosters} :
       LET useFirst == first.kind = "ok"
           useSecond == ~useFirst /\ second.kind = "ok"
           throws == \/ first.kind = "transport"
                     \/ (~useFirst /\ second.kind = "transport")
                     \/ (first.kind = "shape" /\ ~useSecond)
           got == IF useFirst THEN first.snap
                  ELSE IF useSecond THEN second.snap ELSE NoSnap
           YEAR == IF useSecond THEN PrevSeason ELSE TARGET_SEASON
       IN  IF throws
           THEN /\ Finish("Failed", 0)
                /\ UNCHANGED <<roster, rosterMeta, loc>>
           ELSE /\ roster' = Roster(got.n, "athleteId", got.members, got.season)
                /\ rosterMeta' = [Meta(TRUE, NoSeason, "cfbd", FALSE, FALSE) EXCEPT !.year = YEAR]
                /\ Finish("Published", 0)
                /\ loc' = [source |-> "cfbd", y |-> YEAR]
  /\ UNCHANGED <<spot, featured, buildMeta, provCache, static, script, env, before, runs>>

----------------------------------------------------------------------------
(* src/scripts/build_spotlight.js: the v3 spotlight build *)

NoEntry == SnapRes("none", NoSnap)

NoData == Res("none", <<>>)

\* .cache/spotlight/<key>/<provider>/<key>.json for the four requests of a run.
EmptyCache == [roster |-> NoEntry, season |-> NoData, games |-> NoData, game |-> NoData]

\* fetchJSONWithCache without the age guard: any cached copy is a hit.
fetchJSONWithCacheAnyAge(cached, fresh, bypass, res) ==
  IF ~bypass /\ cached.kind # "none"
  THEN [ok |-> TRUE, data |-> cached, store |-> cached, fromCache |-> TRUE, stale |-> FALSE]
  ELSE IF res.kind # "transport"
  THEN [ok |-> TRUE, data |-> res, store |-> res, fromCache |-> FALSE, stale |-> FALSE]
  ELSE IF cached.kind # "none"
  THEN [ok |-> TRUE, data |-> cached, store |-> cached, fromCache |-> TRUE, stale |-> TRUE]
  ELSE [ok |-> FALSE, data |-> cached, store |-> cached, fromCache |-> FALSE, stale |-> FALSE]

\* build_spotlight.js:234-274.  `fresh` says the cached file is younger than
\* CACHE_GUARD_MS; res is what the loader does.  A payload of the wrong shape is
\* a successful load: it is written to the cache and returned.
fetchJSONWithCache(cached, fresh, bypass, res) ==
  IF ~bypass /\ cached.kind # "none" /\ fresh
  THEN [ok |-> TRUE, data |-> cached, store |-> cached, fromCache |-> TRUE, stale |-> FALSE]
  ELSE IF res.kind # "transport"
  THEN [ok |-> TRUE, data |-> res, store |-> res, fromCache |-> FALSE, stale |-> FALSE]
  ELSE IF cached.kind # "none"
  THEN [ok |-> TRUE, data |-> cached, store |-> cached, fromCache |-> TRUE, stale |-> TRUE]
  ELSE [ok |-> FALSE, data |-> cached, store |-> cached, fromCache |-> FALSE, stale |-> FALSE]

\* What a run notes of one provider request: whether a cached copy younger
\* than the guard existed, whether PROVIDER_BYPASS held the provider, and
\* whether the request was answered from the cache without calling upstream
\* (the "cache-hit" line of the cache summary).
Fetched(key, cached, fresh, bypass, got) ==
  [key |-> key, young |-> cached.kind # "none" /\ fresh, bypass |-> bypass,
   skipped |-> got.fromCache /\ ~got.stale]

\* build_spotlight.js:280-328: entries without a numeric id are skipped; a
\* payload without an `athletes` array gives no players.
v3normalizeRoster(data) ==
  IF data.kind = "ok"
  THEN Roster(data.snap.ids, "id", data.snap.members, data.snap.season)
  ELSE NoRoster

\* build_spotlight.js:330-350
validateOrFallbackRoster(players) ==
  IF players.n = 0
  THEN IF roster.n >= ROSTER_MIN
       THEN [ok |-> TRUE, players |-> roster, cached |-> TRUE]
       ELSE [ok |-> FALSE, players |-> NoRoster, cached |-> FALSE]
  ELSE IF players.n < ROSTER_MIN \/ players.n > ROSTER_MAX
  THEN [ok |-> FALSE, players |-> NoRoster, cached |-> FALSE]
  ELSE [ok |-> TRUE, players |-> players, cached |-> FALSE]

\* build_spotlight.js:352-365.  Rows read with Number(player.id): a roster whose
\* rows keep their id under another key misses every id.
validateRoster(players) ==
  /\ players.n >= ROSTER_MIN /\ players.n <= ROSTER_MAX
  /\ players.idKey = "id"

V3Start ==
  \E purge \in BOOLEAN : Begin("v3", [DefaultEnv EXCEPT !.flagPurge = purge], "roster")

\* build_spotlight.js:75-99: purge, the roster request, the roster gate and
\* persistRoster (build_spotlight.js:367-409).
V3Roster ==
  /\ script = "v3" /\ pc = "roster"
  /\ \E res \in StrategyResults, fresh \in BOOLEAN :
       LET cache == IF env.flagPurge THEN EmptyCache ELSE provCache
           got == fetchJSONWithCache(cache.roster, fresh, env.flagPurge, res)
           gate == validateOrFallbackRoster(v3normalizeRoster(got.data))
       IN  /\ provCache' = [cache EXCEPT !.roster = got.store]
           /\ tried' = IF got.ok /\ v3normalizeRoster(got.data).n = 0
                        THEN <<"espn", "cache">> ELSE <<"espn">>
           /\ IF got.ok /\ gate.ok /\ validateRoster(gate.players)
              THEN /\ roster' = [gate.players EXCEPT !.idKey = "id"]
                   /\ rosterMeta' = Meta(TRUE, TARGET_SEASON, "espn", FALSE, FALSE)
                   /\ loc' = [cached |-> gate.cached, fault |-> res.kind,
                              hit |-> got.fromCache, n |-> v3normalizeRoster(got.data).n,
                              purged |-> env.flagPurge /\ provCache # EmptyCache,
                              byName |-> {},
                              fetches |-> <<Fetched("roster", cache.roster, fresh,
                                                    env.flagPurge, got)>>]
                   /\ pc' = "stats"
                   /\ UNCHANGED <<outcome, exitCode>>
              ELSE /\ Finish("Failed", 1)
                   /\ loc' = [cached |-> FALSE, fault |-> res.kind, hit |-> got.fromCache,
                              n |-> v3normalizeRoster(got.data).n,
                              purged |-> env.flagPurge /\ provCache # EmptyCache,
                              byName |-> {},
                              fetches |-> <<Fetched("roster", cache.roster, fresh,
                                                    env.flagPurge, got)>>]
                   /\ UNCHANGED <<roster, rosterMeta>>
  /\ UNCHANGED <<spot, featured, buildMeta, static, script, env, before, runs>>

\* build_spotlight.js:812-818: lower case, punctuation dropped, blanks collapsed.
normalizeName(nm) == [nm EXCEPT !.f = "canon"]

\* The roster's numeric ids as a reader using Number(player.id) sees them; Filler
\* stands for the ids of its untracked players.
rosterIdsOf(r) ==
  IF r.idKey = "id"
  THEN r.members \cup (IF r.n > Cardinality(r.members) THEN {Filler} ELSE {})
  ELSE {}

\* build_spotlight.js:412-413 with 422 and 432: the roster entry for an id, else
\* for a normalised name; NoId when there is none.
rosterMatchId(r, id, name) ==
  IF id # NoId /\ id \in rosterIdsOf(r) THEN id
  ELSE IF name.k \in r.members /\ normalizeName(name) = normalizeName(Nm(name.k)) THEN name.k
  ELSE NoId

\* build_spotlight.js:504-520 and 522-546: the entry a stat row creates, as
\* finalizePlayer returns it.  finalizePlayer deletes the `side` key it has just
\* computed (line 544), so the entry carries none.
finalizePlayer(r, id, name, pos) ==
  LET match == rosterMatchId(r, id, name)
      own == IF id # NoId THEN id ELSE match
  IN  [key |-> IF id # NoId THEN [t |-> "id", id |-> id, nm |-> NoName]
               ELSE [t |-> "name", id |-> NoId, nm |-> normalizeName(name)],
       row |-> Row(own, NoId, own, name, pos, "")]

\* build_spotlight.js:416-428: season rows without a numeric id are skipped.
RECURSIVE seasonEntries(_, _)
seasonEntries(r, rows) ==
  IF rows = <<>> THEN <<>>
  ELSE LET h == Head(rows)
           id == IF h.ath # NoId THEN h.ath ELSE h.id
       IN  (IF id = NoId THEN <<>> ELSE <<finalizePlayer(r, id, h.name, h.pos)>>)
           \o seasonEntries(r, Tail(rows))

\* build_spotlight.js:430-438 over extractGameStats (601-624).
gameEntries(r, rows) ==
  [i \in 1..Len(rows) |->
     finalizePlayer(r, IF rows[i].id # NoId THEN rows[i].id ELSE rows[i].ath,
                    rows[i].name, rows[i].pos)]

\* The values of the `combined` map in insertion order: a key's first entry stays.
RECURSIVE uniqueByKey(_, _)
uniqueByKey(entries, seen) ==
  IF entries = <<>> THEN <<>>
  ELSE IF Head(entries).key \in seen THEN uniqueByKey(Tail(entries), seen)
  ELSE <<Head(entries).row>> \o uniqueByKey(Tail(entries), seen \cup {Head(entries).key})

\* build_spotlight.js:411-463.  The four lists filter on player.side, which
\* finalizePlayer removed.
buildSpotlight(r, seasonPlayers, lastGame) ==
  LET all == uniqueByKey(seasonEntries(r, seasonPlayers) \o gameEntries(r, lastGame), {})
      players == FilterSeq(all, {x \in Range(all) : x.id # NoId})
      pick(side) == FilterSeq(players, {x \in Range(players) : x.side = side})
      lists == [b \in Buckets |->
                  IF b \in {"offense_last", "offense_season"} THEN pick("offense")
                  ELSE pick("defense")]
      first(l) == IF l = <<>> THEN <<>> ELSE <<l[1]>>
      cand == IF lists["offense_last"] # <<>> THEN first(lists["offense_last"])
              ELSE IF lists["defense_last"] # <<>> THEN first(lists["defense_last"])
              ELSE IF lists["offense_season"] # <<>> THEN first(lists["offense_season"])
              ELSE IF lists["defense_season"] # <<>> THEN first(lists["defense_season"])
              ELSE first(players)
  IN  [lists |-> lists, featured |-> cand]

\* build_spotlight.js:465-485: rows without an id, or outside the roster, go.
sealSpotlightArray(rows, ids) ==
  FilterSeq(rows, {x \in Range(rows) :
                     (x.id # NoId \/ x.espn # NoId)
                     /\ (IF x.id # NoId THEN x.id ELSE x.espn) \in ids})

\* build_spotlight.js:693-708: with no fresh rows the existing file is kept as
\* it is; with no existing rows either, the write throws.
writeSpotlightFile(existing, rows) ==
  LET finalRows == FilterSeq(rows, {x \in Range(rows) : x.id # NoId})
  IN  IF finalRows # <<>> THEN [ok |-> TRUE, out |-> finalRows]
      ELSE IF existing # <<>> THEN [ok |-> TRUE, out |-> existing]
      ELSE [ok |-> FALSE, out |-> existing]

\* build_spotlight.js:710-724
writeSpotlightFeatured(existing, entry) ==
  IF entry # <<>> /\ entry[1].id # NoId THEN [ok |-> TRUE, out |-> Featured("object", entry)]
  ELSE IF existing.shape = "object" /\ existing.rows # <<>> /\ existing.rows[1].id # NoId
  THEN [ok |-> TRUE, out |-> existing]
  ELSE [ok |-> FALSE, out |-> existing]

\* The roster players that stat rows without an id name: build_spotlight.js:422
\* and 432 look the row's normalised name up in rosterByName.
nameOnly(r, rows) ==
  {rows[i].name.k : i \in {j \in 1..Len(rows) :
                              /\ rows[j].id = NoId /\ rows[j].ath = NoId
                              /\ rosterMatchId(r, NoId, rows[j].name) # NoId}}

\* Game stat rows as extractGameStats returns them.
G(k, id, f) == Row(id, NoId, NoId, [k |-> k, f |-> f], PosOf(k), "")

V3SeasonRows == { <<U(1), U(2)>>, <<U(6)>> }

V3GameRows == { <<G(3, NoId, "caps"), G(1, 1, "canon")>> }

\* persistSpotlight (build_spotlight.js:676-691) writes file after file, in this
\* order, and stops at the first write that throws.
V3Order == <<"offense_last", "defense_last", "offense_season", "defense_season">>

\* build_spotlight.js:101-156: the three CFBD requests, buildSpotlight, the seal
\* and persistSpotlight.  The three CFBD cache files are written within one run
\* and age together (`fresh`).
V3Stats ==
  /\ script = "v3" /\ pc = "stats"
  /\ \E sres \in Fail({"transport", "shape"}) \cup Rows(V3SeasonRows),
        gres \in Fail({"transport", "shape", "game"}),
        lres \in Fail({"transport", "shape"}) \cup Rows(V3GameRows),
        fresh \in BOOLEAN :
       LET s1 == fetchJSONWithCache(provCache.season, fresh, env.flagPurge, sres)
           s2 == fetchJSONWithCache(provCache.games, fresh, FALSE, gres)
           latestGame == s2.ok /\ s2.data.kind = "game"
           s3 == IF latestGame
                 THEN fetchJSONWithCache(provCache.game, fresh, FALSE, lres)
                 ELSE [ok |-> TRUE, data |-> NoData, store |-> provCache.game,
                       fromCache |-> FALSE, stale |-> FALSE]
           fetched == s1.ok /\ s2.ok /\ s3.ok
           built == buildSpotlight(roster,
                                   IF s1.data.kind = "rows" THEN s1.data.rows ELSE <<>>,
                                   IF s3.data.kind = "rows" THEN s3.data.rows ELSE <<>>)
           ids == rosterIdsOf(roster)
           w == [b \in Buckets |->
                   writeSpotlightFile(spot[b], sealSpotlightArray(built.lists[b], ids))]
           okUpTo(n) == \A i \in 1..n : w[V3Order[i]].ok
           wf == writeSpotlightFeatured(featured, sealSpotlightArray(built.featured, ids))
       IN  /\ loc' = [loc EXCEPT
                         !.byName = IF fetched
                                    THEN nameOnly(roster,
                                           (IF s1.data.kind = "rows" THEN s1.data.rows
                                            ELSE <<>>)
                                           \o (IF s3.data.kind = "rows" THEN s3.data.rows
                                               ELSE <<>>))
                                    ELSE {},
                         !.fetches =
                         @ \o <<Fetched("season", provCache.season, fresh, env.flagPurge, s1)>>
                         \o (IF s1.ok
                             THEN <<Fetched("games", provCache.games, fresh, FALSE, s2)>>
                             ELSE <<>>)
                         \o (IF s1.ok /\ s2.ok /\ latestGame
                             THEN <<Fetched("game", provCache.game, fresh, FALSE, s3)>>
                             ELSE <<>>)]
           /\ provCache' = [provCache EXCEPT
                              !.season = s1.store,
                              !.games = IF s1.ok THEN s2.store ELSE @,
                              !.game = IF s1.ok /\ s2.ok THEN s3.store ELSE @]
           /\ spot' = [b \in Buckets |->
                         IF fetched /\ \E i \in 1..4 : V3Order[i] = b /\ okUpTo(i)
                         THEN w[b].out ELSE spot[b]]
           /\ IF fetched /\ okUpTo(4) /\ wf.ok
              THEN /\ featured' = wf.out
                   /\ Finish(IF loc.cached THEN "CacheRestored" ELSE "Published", 0)
              ELSE /\ featured' = featured
                   /\ Finish("Failed", 1)
  /\ UNCHANGED <<roster, rosterMeta, buildMeta, static, script, env, tried, before, runs>>

----------------------------------------------------------------------------
(* src/unnamed/part_009: the ESPN spotlight build *)

\* A leader as loadSeasonLeaders / loadLastGameLeaders push it (part_009:334-340,
\* 368-374): Number(athlete.id), the display name, the id of the player link.
P(k) == Row(k, NoId, k, Nm(k), PosOf(k), "")

\* A leader whose payload carries a name in display case and no id.
PN(k) == Row(NoId, NoId, NoId, [k |-> k, f |-> "caps"], PosOf(k), "")

Leaders(kind, offense, defense) == [kind |-> kind, offense |-> offense, defense |-> defense]

LeaderResults ==
  { Leaders("transport", <<>>, <<>>),
    Leaders("shape", <<>>, <<>>),
    Leaders("ok", <<P(1), P(2), P(3), P(4), P(5), P(1), P(6), P(7)>>, <<P(3), PN(5)>>),
    Leaders("ok", <<P(1), PN(2)>>, <<>>) }

\* part_009:110-112: roster names lower-cased, to the ids Number(player.id) finds.
nameToId(r, name) ==
  IF r.idKey = "id" /\ name.k \in r.members /\ ToLower(name) = ToLower(Nm(name.k))
  THEN name.k ELSE NoId

\* part_009:303-319: the row with its id resolved, or <<>> for null.
normalizeSpotlightRow(r, row) ==
  LET id == IF row.id # NoId THEN row.id
            ELSE IF row.espn # NoId THEN row.espn
            ELSE IF row.name # NoName THEN nameToId(r, row.name)
            ELSE NoId
  IN  IF id = NoId \/ row.name = NoName THEN <<>> ELSE <<[row EXCEPT !.id = id]>>

\* part_009:277-301, the loop shared with selectLeaders (380-391): rows that do
\* not resolve into the roster are dropped, a repeated id keeps its first row.
RECURSIVE ensureRosterCoverage(_, _, _)
ensureRosterCoverage(r, rows, seen) ==
  IF rows = <<>> THEN <<>>
  ELSE LET e == normalizeSpotlightRow(r, Head(rows))
       IN  IF e = <<>> \/ e[1].id \notin rosterIdsOf(r) \/ e[1].id \in seen
           THEN ensureRosterCoverage(r, Tail(rows), seen)
           ELSE e \o ensureRosterCoverage(r, Tail(rows), seen \cup {e[1].id})

\* part_009:380-393
selectLeaders(r, entries) == Take(LeaderCap, ensureRosterCoverage(r, entries, {}))

\* part_009:395-399
selectFeatured(r, season, lastGame) ==
  Take(FeaturedPool,
       selectLeaders(r, season.offense \o lastGame.offense \o season.defense \o lastGame.defense))

\* part_009:267-275: the five files as they are; a featured object becomes [obj].
loadExistingSpotlights == [lists |-> spot, featured |-> featured.rows, fresh |-> FALSE]

\* part_009:243-249: the four lists of the payload.
payloadLists(r, season, lastGame) ==
  [b \in Buckets |->
     CASE b = "offense_last" -> selectLeaders(r, lastGame.offense)
       [] b = "defense_last" -> selectLeaders(r, lastGame.defense)
       [] b = "offense_season" -> selectLeaders(r, season.offense)
       [] OTHER -> selectLeaders(r, season.defense)]

\* part_009:238-265
buildSpotlightPayload(r, season, lastGame) ==
  LET lists == payloadLists(r, season, lastGame)
      feat == selectFeatured(r, season, lastGame)
  IN  IF /\ season.kind \in {"ok", "shape"}
         /\ lastGame.kind \in {"ok", "shape"}
         /\ \A b \in Buckets : lists[b] # <<>>
         /\ feat # <<>>
      THEN [lists |-> lists, featured |-> feat, fresh |-> TRUE]
      ELSE loadExistingSpotlights

\* part_009:115
keep(r, id) == id # NoId /\ id \in rosterIdsOf(r)

\* part_009:140: the roster's QB, else its first player; the id is what
\* Number(player.id) gives.  Rows written with `position` have no `pos`.
defaultFeatured(r) ==
  LET k == IF 1 \in r.members /\ r.idKey # "athleteId" THEN 1
           ELSE IF r.members # {} THEN CHOOSE m \in r.members : \A o \in r.members : m <= o
           ELSE 0
  IN  Row(IF r.idKey # "id" THEN NoId ELSE IF k = 0 THEN Filler ELSE k,
          NoId, NoId, [k |-> k, f |-> "canon"], IF k = 0 THEN "" ELSE PosOf(k), "")

\* part_009:141-167: the featured row and the id it ends with.
pickFeatured(r, rows) ==
  LET d == defaultFeatured(r)
      same == FilterSeq(rows, {x \in Range(rows) : x.id = d.id})
      qbs == FilterSeq(rows, {x \in Range(rows) : x.pos = "QB"})
  IN  IF same # <<>> THEN same[1]
      ELSE IF qbs # <<>> THEN qbs[1]
      ELSE IF rows # <<>> THEN rows[1]
      ELSE d

EspnSpotStart ==
  \E strict \in BOOLEAN : Begin("espnspot", [DefaultEnv EXCEPT !.strict = strict], "main")

\* part_009:91-236
EspnSpotMain ==
  /\ script = "espnspot" /\ pc = "main"
  /\ IF \/ roster.n = 0
        \/ ~rosterMeta.present
        \/ (env.strict /\ rosterMeta.season # TARGET_SEASON)
     THEN /\ Finish("Failed", 1)
          /\ UNCHANGED <<spot, featured, buildMeta, loc, tried>>
     ELSE \E season \in LeaderResults, lastGame \in LeaderResults :
            LET outputs == buildSpotlightPayload(roster, season, lastGame)
                clean(rows) ==
                  LET c == ensureRosterCoverage(roster, rows, {})
                  IN  FilterSeq(c, {x \in Range(c) : keep(roster, x.id)})
                feat == pickFeatured(roster, clean(outputs.featured))
            IN  /\ tried' = IF outputs.fresh THEN <<"espn">> ELSE <<"espn", "cache">>
                /\ spot' = [b \in Buckets |-> clean(outputs.lists[b])]
                /\ loc' = [fresh |-> outputs.fresh, season |-> season.kind,
                           lastGame |-> lastGame.kind,
                           lists |-> payloadLists(roster, season, lastGame)]
                /\ IF keep(roster, feat.id)
                   THEN /\ featured' = Featured("array", <<feat>>)
                        /\ buildMeta' = [present |-> TRUE,
                                         mode |-> IF rosterMeta.reuse THEN "cache" ELSE "live"]
                        /\ Finish(IF outputs.fresh THEN "Published" ELSE "CacheRestored", 0)
                   ELSE /\ Finish("Failed", 1)
                        /\ UNCHANGED <<featured, buildMeta>>
  /\ UNCHANGED <<roster, rosterMeta, provCache, static, script, env, before, runs>>

----------------------------------------------------------------------------
(* src/scripts/build-spotlight.js: the CFBD spotlight and ticker build *)

\* One CFBD stat row (one per player and category); v is what the row adds to
\* the player's score.
StatRow(k, v) == [name |-> Nm(k), pos |-> PosOf(k), v |-> v]

\* build-spotlight.js:285-301: rows folded by exact player name, first seen first.
RECURSIVE foldPlayers(_)
foldPlayers(rows) ==
  IF rows = <<>> THEN <<>>
  ELSE LET h == Head(rows)
           same == {i \in 1..Len(rows) : rows[i].name = h.name}
           rest == FilterSeq(Tail(rows), {x \in Range(rows) : x.name # h.name})
           RECURSIVE sum(_)
           sum(I) == IF I = {} THEN 0
                     ELSE LET i == CHOOSE j \in I : TRUE IN rows[i].v + sum(I \ {i})
       IN  <<[name |-> h.name, pos |-> h.pos, v |-> sum(same)]>> \o foldPlayers(rest)

\* Array.prototype.sort by descending score (stable).
RECURSIVE sortDesc(_)
sortDesc(list) ==
  IF list = <<>> THEN <<>>
  ELSE LET top == CHOOSE i \in 1..Len(list) :
                    \A j \in 1..Len(list) :
                      list[j].v < list[i].v \/ (list[j].v = list[i].v /\ i <= j)
       IN  <<list[top]>> \o sortDesc(SubSeq(list, 1, top - 1) \o SubSeq(list, top + 1, Len(list)))

\* topK without its slice: every candidate is kept.
topKAll(list, k) == sortDesc(list)

\* build-spotlight.js:422-424
topK(list, k) == Take(k, sortDesc(list))

\* build-spotlight.js:259-283: the entries carry a name and no id.
rankPlayers(players, side) ==
  LET list == topK(players, TopK)
  IN  [i \in 1..Len(list) |->
         [Row(NoId, NoId, NoId, list[i].name, list[i].pos, side) EXCEPT !.score = list[i].v]]

OffensePos == {"QB", "RB", "WR", "TE", "ATH"}

\* One box-score entry: the athlete, the stat category, the yards of the entry.
Box(k, cat, yds) == [k |-> k, cat |-> cat, v |-> yds]

\* build-spotlight.js:582-598: the best entry of a list, as mk() returns it; the
\* ESPN link carries the athlete id.
topRow(list) ==
  IF list = <<>> THEN <<>>
  ELSE LET b == sortDesc(list)[1]
       IN  <<Row(NoId, NoId, b.k, Nm(b.k), PosOf(b.k), "")>>

\* build-spotlight.js:575-613
offenseBox(players) ==
  LET by(cat, pos) == FilterSeq(players, {x \in Range(players) :
                                            x.cat = cat \/ PosOf(x.k) \in pos})
  IN  topRow(by("passing", {"QB"})) \o topRow(by("rushing", {"RB"}))
      \o topRow(by("receiving", {"WR", "TE"}))

defenseBox(players) ==
  LET defenders == FilterSeq(players, {x \in Range(players) :
                                         x.cat = "defensive"
                                         \/ PosOf(x.k) \in {"LB", "DL", "CB"}})
      top == Take(TopK, defenders)
  IN  [i \in 1..Len(top) |-> Row(NoId, NoId, top[i].k, Nm(top[i].k), PosOf(top[i].k), "")]

CfbdStatRows ==
  { <<>>,
    <<StatRow(1, 200), StatRow(2, 90), StatRow(1, 40), StatRow(4, 120), StatRow(6, 10),
      StatRow(3, 7), StatRow(5, 7), StatRow(7, 2), StatRow(3, 1)>> }

CfbdBoxes ==
  { <<>>,
    <<Box(1, "passing", 200), Box(1, "rushing", 50), Box(2, "rushing", 30),
      Box(4, "receiving", 80), Box(3, "defensive", 0)>> }

CfbdSpotStart == Begin("cfbdspot", DefaultEnv, "main")

\* build-spotlight.js:678-707 over buildSpotlight (501-675).  get() (173-198)
\* answers a failed request with null, which reads as an empty list; a payload
\* that is no array throws in foldPlayers, and main().catch exits 0.  The
\* featured entry is the candidate with the best grade, which the model leaves
\* open among the candidates.
CfbdSpotMain ==
  /\ script = "cfbdspot" /\ pc = "main"
  /\ tried' = Append(tried, "cfbd")
  /\ \E seasonRes \in {"transport", "shape", "ok"}, gameRes \in {"transport", "shape", "ok"},
        played \in BOOLEAN,
        seasonRows \in CfbdStatRows, gameRows \in CfbdStatRows, box \in CfbdBoxes :
       LET seasonPlayers == foldPlayers(IF seasonRes = "ok" THEN seasonRows ELSE <<>>)
           gamePlayers == foldPlayers(IF gameRes = "ok" /\ played THEN gameRows ELSE <<>>)
           off(list) == FilterSeq(list, {x \in Range(list) : x.pos \in OffensePos})
           def(list) == FilterSeq(list, {x \in Range(list) :
                                           x.pos \notin {"QB", "RB", "WR", "TE"}})
           boxPlayers == IF played THEN box ELSE <<>>
           offenseLast == IF offenseBox(boxPlayers) # <<>> THEN offenseBox(boxPlayers)
                          ELSE rankPlayers(off(gamePlayers), "offense")
           defenseLast == IF defenseBox(boxPlayers) # <<>> THEN defenseBox(boxPlayers)
                          ELSE rankPlayers(def(gamePlayers), "defense")
           offenseSeason == rankPlayers(off(seasonPlayers), "offense")
           defenseSeason == rankPlayers(def(seasonPlayers), "defense")
           candidates == Take(1, offenseLast) \o Take(1, defenseLast) \o Take(1, offenseSeason)
           placeholder == Row(NoId, NoId, NoId, NoName, "", "")
           throws == seasonRes = "shape" \/ (played /\ gameRes = "shape")
       IN  /\ (seasonRes # "ok" => seasonRows = <<>>)
           /\ (gameRes # "ok" \/ ~played => gameRows = <<>>)
           /\ (~played => box = <<>>)
           /\ IF throws
              THEN /\ Finish("Failed", 0)
                   /\ UNCHANGED <<spot, featured, loc>>
              ELSE /\ spot' = [b \in Buckets |->
                                 CASE b = "offense_last" -> offenseLast
                                   [] b = "defense_last" -> defenseLast
                                   [] b = "offense_season" -> offenseSeason
                                   [] OTHER -> defenseSeason]
                   /\ \E f \in IF candidates = <<>> THEN {placeholder} ELSE Range(candidates) :
                        featured' = Featured("object", <<f>>)
                   /\ Finish("Published", 0)
                   /\ loc' = [source |-> "cfbd", season |-> seasonRes, game |-> gameRes]
  /\ UNCHANGED <<roster, rosterMeta, buildMeta, provCache, static, script, env, before, runs>>

\* fixtures/roster_2025.json and the UKA roster are checked-in or hand-placed
\* files that no script of the pipeline writes.
StaticFiles ==
  { <<NoRoster, NoRoster>>,
    <<Roster(90, "id", {1, 2, 3}, TARGET_SEASON), Roster(80, "none", {1, 2}, TARGET_SEASON)>>,
    <<NoRoster, Roster(80, "none", {1, 2}, PrevSeason)>> }

Init ==
  /\ roster = NoRoster
  /\ rosterMeta = NoMeta
  /\ spot = EmptySpot
  /\ featured = NoFeatured
  /\ buildMeta = NoBuildMeta
  /\ provCache = EmptyCache
  /\ \E st \in StaticFiles : fixture = st[1] /\ uka = st[2]
  /\ hist = NoHist
  /\ script = "idle"
  /\ pc = "idle"
  /\ env = DefaultEnv
  /\ loc = NoLoc
  /\ outcome = "none"
  /\ exitCode = 0
  /\ tried = <<>>
  /\ before = Published
  /\ runs = 0

Next ==
  \/ ChainStart \/ ChainCfbd \/ ChainEspn \/ ChainCfbfastr
  \/ RosterStart \/ RosterApi \/ RosterPage \/ RosterLastGood \/ RosterMain
  \/ CfbdRosterStart \/ CfbdRosterMain
  \/ V3Start \/ V3Roster \/ V3Stats
  \/ EspnSpotStart \/ EspnSpotMain
  \/ CfbdSpotStart \/ CfbdSpotMain
  \/ Exit

Spec == Init /\ [][Next]_vars

----------------------------------------------------------------------------
(* One upstream request with its retries: stability.js retry (as part_009
   fetchJson uses it), build_spotlight.js fetchJSON, build-spotlight.js get and
   the chain's cfbd.  The run is a script "fetch"; loc holds the loop's
   variables and tried the result of every request made. *)

MaxBackoff == 4

MaxRetries == 3

\* part_009:423-430 parseBackoff: a non-empty list of positive delays, the
\* default when the setting is missing or holds no number.
DefaultBackoff == <<250, 600, 1200>>

BackoffLists ==
  {DefaultBackoff} \cup UNION {[1..n -> {200, 900}] : n \in 1..MaxBackoff}

\* build_spotlight.js:53: --retries, 2 when the flag is missing (1 with --mode fast).
DefaultRetries == 2

\* build-spotlight.js:175: the loop bound of get.
GetAttempts == 2

\* build_spotlight.js:207: Math.round(Math.pow(1.5, attempt) * 500)
fetchJSONBackoff(attempt) ==
  CASE attempt = 0 -> 500
    [] attempt = 1 -> 750
    [] attempt = 2 -> 1125
    [] attempt = 3 -> 1688
    [] OTHER -> 2531

Fetch(fn, backoff, retries) ==
  [fn |-> fn, backoff |-> backoff, retries |-> retries, attempt |-> 0, slept |-> <<>>]

FetchBegin(f) ==
  /\ script = "idle" /\ pc = "idle"
  /\ script' = "fetch"
  /\ pc' = "attempt"
  /\ loc' = f
  /\ tried' = <<>>
  /\ outcome' = "none"
  /\ UNCHANGED <<disk, static, env, exitCode, before, runs>>

FetchStart ==
  \/ \E b \in BackoffLists : FetchBegin(Fetch("retry", b, 0))
  \/ \E r \in 0..MaxRetries : FetchBegin(Fetch("fetchJSON", <<>>, r))
  \/ FetchBegin(Fetch("get", <<>>, 0))
  \/ FetchBegin(Fetch("cfbd", <<>>, 0))

\* How a fetch ends: with the payload ("ok") or with a failure, which retry,
\* fetchJSON and cfbd throw and get returns as null.
FetchEnd(result) ==
  /\ pc' = "done"
  /\ outcome' = result

\* What one request can meet.
RequestResults == {"ok", "transport", "http", "nonjson"}

\* stability.js:16-29 around part_009:401-415: one iteration per backoff entry;
\* every failure is followed by its delay, the last one too, then the throw.
RetryAttempt ==
  /\ script = "fetch" /\ pc = "attempt" /\ loc.fn = "retry"
  /\ \E r \in RequestResults :
       /\ tried' = Append(tried, r)
       /\ IF r = "ok"
          THEN /\ FetchEnd("ok")
               /\ UNCHANGED loc
          ELSE /\ loc' = [loc EXCEPT !.attempt = @ + 1,
                                     !.slept = Append(@, loc.backoff[loc.attempt + 1])]
               /\ IF loc.attempt + 1 >= Len(loc.backoff)
                  THEN FetchEnd("Failure")
                  ELSE UNCHANGED <<pc, outcome>>
  /\ UNCHANGED <<disk, static, script, env, exitCode, before, runs>>

\* A fetchJSON whose loop never compares attempt with maxRetries.
FetchJSONForever ==
  /\ script = "fetch" /\ pc = "attempt" /\ loc.fn = "fetchJSON"
  /\ Len(tried) <= MaxRetries + 2
  /\ \E r \in RequestResults :
       /\ tried' = Append(tried, r)
       /\ IF r = "ok"
          THEN /\ FetchEnd("ok")
               /\ UNCHANGED loc
          ELSE /\ loc' = [loc EXCEPT !.attempt = @ + 1,
                                     !.slept = Append(@, fetchJSONBackoff(loc.attempt))]
               /\ UNCHANGED <<pc, outcome>>
  /\ UNCHANGED <<disk, static, script, env, exitCode, before, runs>>

\* build_spotlight.js:181-213: attempts 0..maxRetries; a failure of the last
\* attempt breaks out and throws, any other one sleeps and goes on.
FetchJSONAttempt ==
  /\ script = "fetch" /\ pc = "attempt" /\ loc.fn = "fetchJSON"
  /\ \E r \in RequestResults :
       /\ tried' = Append(tried, r)
       /\ IF r = "ok"
          THEN /\ FetchEnd("ok")
               /\ UNCHANGED loc
          ELSE IF loc.attempt >= loc.retries
          THEN /\ FetchEnd("Failure")
               /\ UNCHANGED loc
          ELSE /\ loc' = [loc EXCEPT !.attempt = @ + 1,
                                     !.slept = Append(@, fetchJSONBackoff(loc.attempt))]
               /\ UNCHANGED <<pc, outcome>>
  /\ UNCHANGED <<disk, static, script, env, exitCode, before, runs>>

\* build-spotlight.js:173-198: two iterations; a 2xx answer that is no JSON
\* returns null at once, any other failure sleeps 300 ms and goes on.
GetAttempt ==
  /\ script = "fetch" /\ pc = "attempt" /\ loc.fn = "get"
  /\ \E r \in RequestResults :
       /\ tried' = Append(tried, r)
       /\ IF r = "ok"
          THEN /\ FetchEnd("ok")
               /\ UNCHANGED loc
          ELSE IF r = "nonjson"
          THEN /\ FetchEnd("Failure")
               /\ UNCHANGED loc
          ELSE /\ loc' = [loc EXCEPT !.attempt = @ + 1, !.slept = Append(@, 300)]
               /\ IF loc.attempt + 1 >= GetAttempts
                  THEN FetchEnd("Failure")
                  ELSE UNCHANGED <<pc, outcome>>
  /\ UNCHANGED <<disk, static, script, env, exitCode, before, runs>>

\* part_008:9-17 (and fallback_unofficial.js:2-7): one request, no retry.
CfbdAttempt ==
  /\ script = "fetch" /\ pc = "attempt" /\ loc.fn = "cfbd"
  /\ \E r \in RequestResults :
       /\ tried' = Append(tried, r)
       /\ FetchEnd(IF r = "ok" THEN "ok" ELSE "Failure")
  /\ UNCHANGED <<loc, disk, static, script, env, exitCode, before, runs>>

\* The caller has the result; it may go on to its next request.
FetchReturn ==
  /\ script = "fetch" /\ pc = "done"
  /\ script' = "idle"
  /\ pc' = "idle"
  /\ loc' = NoLoc
  /\ tried' = <<>>
  /\ outcome' = "none"
  /\ UNCHANGED <<disk, static, env, exitCode, before, runs>>

FetchInit ==
  /\ roster = NoRoster /\ rosterMeta = NoMeta
  /\ spot = EmptySpot /\ featured = NoFeatured /\ buildMeta = NoBuildMeta
  /\ provCache = EmptyCache
  /\ fixture = NoRoster /\ uka = NoRoster
  /\ hist = NoHist
  /\ script = "idle" /\ pc = "idle"
  /\ env = DefaultEnv
  /\ loc = NoLoc
  /\ outcome = "none"
  /\ exitCode = 0
  /\ tried = <<>>
  /\ before = Published
  /\ runs = 0

FetchNext ==
  \/ FetchStart
  \/ RetryAttempt
  \/ FetchJSONAttempt
  \/ GetAttempt
  \/ CfbdAttempt
  \/ FetchReturn

SpecFetch == FetchInit /\ [][FetchNext]_vars

----------------------------------------------------------------------------
(* The dataset validators: src/scripts/validate_datasets.js:1-76 (first
   revision), validate_datasets.js:78-267 (second revision) and
   src/unnamed/part_013.  A validator reads the published files and exits; it
   writes nothing.  The files are the inputs: the roster carries, besides the
   fields of Roster, `ids` (how many of its n rows have a numeric id; the
   tracked members are among them) and `shots` (its rows have the headshot url
   of their id); the metadata carries teamId; a spotlight file is its rows for
   tracked players and `more`, the number of further rows, each for a different
   untracked player of the roster.  Every row has statistics, every metadata
   file a generated_at, and espn_map.json is absent. *)

TEAM_ID == 96

\* The player whose name is on every blacklist (validate_datasets.js:71, 94).
Departed == 6

\* validate_datasets.js:71-73: blacklist.includes(player.name), the exact string.
isBlacklisted1(name) == name = Nm(Departed)

\* validate_datasets.js:160-161 and 205-206: the normalised name is on the list.
isBlacklisted2(name) == normalizeName(name) = normalizeName(Nm(Departed))

\* part_013:159-163 and 176-184: the lower-cased name is on the lower-cased list.
isBlacklisted3(name) == ToLower(name) = ToLower(Nm(Departed))

VRoster(n, ids, members, shots) ==
  [n |-> n, idKey |-> "id", members |-> members, from |-> TARGET_SEASON,
   ids |-> ids, shots |-> shots]

VMeta(present, teamId, season, source, strict) ==
  [present |-> present, teamId |-> teamId, season |-> season, source |-> source,
   strict |-> strict, reuse |-> FALSE, year |-> NoSeason]

VFile(rows, more) == [rows |-> rows, more |-> more]

\* The set of Number(player.id) over the roster (validate_datasets.js:54,
\* 100-107, part_013:82-91).
vRosterIds(r) ==
  IF r.ids = 0 THEN {}
  ELSE r.members \cup (IF r.ids > Cardinality(r.members) THEN {Filler} ELSE {})

\* validate_datasets.js:105-106: the normalised names of the roster, as the
\* tracked players among them.
vRosterNames(r) == {normalizeName(Nm(k)) : k \in r.members}

\* The roster has players outside Keys.
vUntracked(r) == r.n > Cardinality(r.members)

\* The size check without its upper bound.
rosterSizeLowOnly(r) == r.n >= ROSTER_MIN

\* validate_datasets.js:52, 152 and part_013:78
rosterSizeOk(r) == r.n >= ROSTER_MIN /\ r.n <= ROSTER_MAX

\* validate_datasets.js:221-236: the numeric id of a row: its id, else its
\* athleteId, else the id in its ESPN link.
resolveId(row) ==
  IF row.id # NoId THEN row.id
  ELSE IF row.ath # NoId THEN row.ath
  ELSE row.espn

\* validate_datasets.js:198-219
validateSpotlightEntry(row) ==
  /\ row.name # NoName
  /\ ~isBlacklisted2(row.name)
  /\ resolveId(row) # NoId
  /\ row.espn # NoId

\* validate_datasets.js:179-184: the id is not in the roster and neither is the
\* name.
isMismatch(row, r) ==
  /\ resolveId(row) \notin vRosterIds(r)
  /\ normalizeName(row.name) \notin vRosterNames(r)

\* validate_datasets.js:168-187: total and mismatches of a file.
fileTotal(f) == Len(f.rows) + f.more

fileMismatches(f, r) ==
  Cardinality({i \in 1..Len(f.rows) : isMismatch(f.rows[i], r)})
    + (IF Filler \in vRosterIds(r) \/ vUntracked(r) THEN 0 ELSE f.more)

\* validate_datasets.js:167-196 with the threshold at 10%.
validateSpotlightArrayTenth(f, r) ==
  /\ \A i \in 1..Len(f.rows) : validateSpotlightEntry(f.rows[i])
  /\ fileMismatches(f, r) * 10 <= fileTotal(f)

\* validate_datasets.js:167-196: TRUE when the file passes.  missRate > 0.05
\* is mismatches * 20 > total.
validateSpotlightArray(f, r) ==
  /\ \A i \in 1..Len(f.rows) : validateSpotlightEntry(f.rows[i])
  /\ fileMismatches(f, r) * 20 <= fileTotal(f)

\* validate_datasets.js:56-64: every row has a numeric id, every id is in the
\* roster.
checkFile(f, r) ==
  /\ \A i \in 1..Len(f.rows) : f.rows[i].id # NoId /\ f.rows[i].id \in vRosterIds(r)
  /\ (f.more > 0 => Filler \in vRosterIds(r))

\* part_013:140-152: as checkFile, and no id twice in one file.
checkRows(rows, more, r) ==
  /\ \A i \in 1..Len(rows) : rows[i].id # NoId /\ rows[i].id \in vRosterIds(r)
  /\ \A i, j \in 1..Len(rows) : rows[i].id = rows[j].id => i = j
  /\ (more > 0 => Filler \in vRosterIds(r))

\* The end of a validator: its exit code and the check that decided it.
Verdict(code, reason) == [code |-> code, reason |-> reason]

\* fixtures/spotlight_last.json
FixtureSpotlights == { <<P(1)>>, <<P(7)>> }

\* validate_datasets.js:31-40
firstFixture(fs) ==
  IF fixture.n >= 5 /\ \A i \in 1..Len(fs) : fs[i].id # NoId /\ fs[i].id \in rosterIdsOf(fixture)
  THEN Verdict(0, "fixtures") ELSE Verdict(1, "fixtures")

\* validate_datasets.js:42-76
firstRevision ==
  IF ~rosterMeta.present THEN Verdict(1, "read")
  ELSE IF roster.n = 0 THEN Verdict(0, "soft")
  ELSE IF rosterMeta.teamId # TEAM_ID THEN Verdict(1, "teamId")
  ELSE IF rosterMeta.season # TARGET_SEASON THEN Verdict(1, "season")
  ELSE IF ~rosterSizeOk(roster) THEN Verdict(1, "size")
  ELSE IF \E b \in Buckets : ~checkFile(spot[b], roster) THEN Verdict(1, "spotlight")
  ELSE IF \E b \in {"offense_last", "defense_last"} :
            \E i \in 1..Len(spot[b].rows) : isBlacklisted1(spot[b].rows[i].name)
  THEN Verdict(1, "blacklist")
  ELSE Verdict(0, "ok")

\* validate_datasets.js:151-165
validateRoster2(r) ==
  IF ~rosterSizeOk(r) THEN Verdict(1, "size")
  ELSE IF r.ids * 10 < 9 * r.n THEN Verdict(1, "coverage")
  ELSE IF \E k \in r.members : isBlacklisted2(Nm(k)) THEN Verdict(1, "blacklist")
  ELSE Verdict(0, "ok")

\* validate_datasets.js:96-127 and 264-267.  An array in spotlight_featured.json
\* passes readJsonObject and has no name.
secondRevision ==
  IF validateRoster2(roster).code # 0 THEN validateRoster2(roster)
  ELSE IF \E b \in Buckets : ~validateSpotlightArray(spot[b], roster)
  THEN Verdict(1, "spotlight")
  ELSE IF \/ featured.shape # "object"
          \/ featured.rows = <<>>
          \/ ~validateSpotlightEntry(featured.rows[1])
          \/ isMismatch(featured.rows[1], roster)
  THEN Verdict(1, "featured")
  ELSE Verdict(0, "ok")

\* part_013:45-57
part013Fixture(fs) ==
  IF fixture.n > 0 /\ \A i \in 1..Len(fs) : fs[i].id # NoId /\ fs[i].id \in rosterIdsOf(fixture)
  THEN Verdict(0, "fixtures") ELSE Verdict(1, "fixtures")

\* part_013:59-111.  `flag` says artifacts/status/last-good-roster.flag exists,
\* `names` that data/blacklist_names.json exists (validateBlacklist returns at
\* once when it does not).  A missing spotlight file reads as [].
part013(strict, flag, names) ==
  IF ~rosterMeta.present THEN Verdict(1, "read")
  ELSE IF roster.n = 0 THEN Verdict(0, "soft")
  ELSE IF rosterMeta.teamId # TEAM_ID THEN Verdict(1, "teamId")
  ELSE IF rosterMeta.season # TARGET_SEASON THEN Verdict(1, "season")
  ELSE IF rosterMeta.source \notin {"espn", "espn+uka", "cache"} THEN Verdict(1, "source")
  ELSE IF strict /\ ~rosterMeta.strict THEN Verdict(1, "strict")
  ELSE IF ~rosterSizeOk(roster) THEN Verdict(1, "size")
  ELSE IF roster.ids < roster.n THEN Verdict(1, "id")
  ELSE IF ~roster.shots THEN Verdict(1, "headshot")
  ELSE IF roster.ids * 100 < 98 * roster.n
  THEN IF flag THEN Verdict(0, "soft") ELSE Verdict(1, "coverage")
  ELSE IF \/ \E b \in Buckets : ~checkRows(spot[b].rows, spot[b].more, roster)
          \/ featured.shape = "object"
          \/ ~checkRows(featured.rows, 0, roster)
  THEN Verdict(1, "spotlight")
  ELSE IF /\ names
          /\ \/ \E k \in roster.members : isBlacklisted3(Nm(k))
             \/ \E b \in Buckets :
                  \E i \in 1..Len(spot[b].rows) : isBlacklisted3(spot[b].rows[i].name)
             \/ \E i \in 1..Len(featured.rows) : isBlacklisted3(featured.rows[i].name)
  THEN Verdict(1, "blacklist")
  ELSE Verdict(0, "ok")

Validators == {"first", "second", "part_013"}

\* node scripts/validate_datasets.js [--fixture], with STRICT_SEASON.
ValidateStart ==
  /\ script = "idle"
  /\ \E v \in Validators, fx \in BOOLEAN, strict \in BOOLEAN, flag \in BOOLEAN,
        names \in BOOLEAN :
       /\ script' = v
       /\ env' = [fixture |-> fx /\ v # "second", strict |-> strict, flag |-> flag,
                  names |-> names]
  /\ pc' = "main"
  /\ UNCHANGED <<disk, static, loc, outcome, exitCode, tried, before, runs>>

ValidateEnd(v) ==
  /\ exitCode' = v.code
  /\ outcome' = IF v.code = 0 THEN "Valid" ELSE "Invalid"
  /\ loc' = [reason |-> v.reason]
  /\ pc' = "done"
  /\ UNCHANGED <<disk, static, script, env, tried, before, runs>>

ValidateFirst ==
  /\ script = "first" /\ pc = "main"
  /\ IF env.fixture
     THEN \E fs \in FixtureSpotlights : ValidateEnd(firstFixture(fs))
     ELSE ValidateEnd(firstRevision)

ValidateSecond ==
  /\ script = "second" /\ pc = "main"
  /\ ValidateEnd(secondRevision)

ValidatePart013 ==
  /\ script = "part_013" /\ pc = "main"
  /\ IF env.fixture
     THEN \E fs \in FixtureSpotlights : ValidateEnd(part013Fixture(fs))
     ELSE ValidateEnd(part013(env.strict, env.flag, env.names))

\* Rosters, metadata and spotlight files a validator may find.
VRosters ==
  { VRoster(90, 90, {1, 2, 3, 4}, TRUE),
    VRoster(0, 0, {}, TRUE),
    VRoster(40, 40, {1, 2}, TRUE),
    VRoster(64, 64, {1, 2}, TRUE),
    VRoster(65, 65, {1, 2}, TRUE),
    VRoster(150, 150, {1, 2}, TRUE),
    VRoster(151, 151, {1, 2}, TRUE),
    VRoster(100, 90, {1, 2, 3}, TRUE),
    VRoster(100, 89, {1, 2, 3}, TRUE),
    VRoster(90, 90, {1, 2, 3, 4}, FALSE),
    VRoster(90, 90, {1, 2, 3, 6}, TRUE) }

VMetas ==
  { VMeta(TRUE, TEAM_ID, TARGET_SEASON, "espn", TRUE),
    VMeta(TRUE, TEAM_ID, PrevSeason, "espn", TRUE),
    VMeta(TRUE, TEAM_ID + 1, TARGET_SEASON, "cache", TRUE),
    VMeta(TRUE, TEAM_ID, TARGET_SEASON, "espn+uka", FALSE),
    VMeta(TRUE, NoId, NoSeason, "cfbd", FALSE),
    VMeta(FALSE, NoId, NoSeason, "none", TRUE) }

\* A row whose id is of no roster player and whose name is a roster player's.
Renamed == Row(7, NoId, 7, Nm(1), "QB", "")

VFiles ==
  { VFile(<<P(1), P(2)>>, 0),
    VFile(<<P(7)>>, 19),
    VFile(<<P(7)>>, 18),
    VFile(<<Renamed>>, 0),
    VFile(<<P(6)>>, 0),
    VFile(<<>>, 0) }

ValidateInit ==
  /\ roster \in VRosters
  /\ rosterMeta \in VMetas
  /\ \E f \in VFiles, g \in {VFile(<<P(1), P(2)>>, 0), VFile(<<P(7)>>, 18)} :
       spot = [b \in Buckets |->
                 CASE b = "offense_last" -> f
                   [] b = "defense_season" -> g
                   [] OTHER -> VFile(<<P(2)>>, 3)]
  /\ featured \in {Featured("object", <<P(1)>>), Featured("array", <<P(1)>>)}
  /\ buildMeta = NoBuildMeta
  /\ provCache = EmptyCache
  /\ fixture \in {NoRoster, Roster(90, "id", {1, 2, 3}, TARGET_SEASON)}
  /\ uka = NoRoster
  /\ hist = NoHist
  /\ script = "idle" /\ pc = "idle"
  /\ env = DefaultEnv
  /\ loc = NoLoc
  /\ outcome = "none"
  /\ exitCode = 0
  /\ tried = <<>>
  /\ before = Published
  /\ runs = 0

ValidateNext ==
  \/ ValidateStart \/ ValidateFirst \/ ValidateSecond \/ ValidatePart013
  \/ Exit

SpecValidate == ValidateInit /\ [][ValidateNext]_vars

----------------------------------------------------------------------------
(* The scoring formulas and the stat normalisers: part_002 (scorePlayers,
   flatGamePlayers), build-spotlight.js (scoreOff, scoreDef), build-cfbd.mjs
   (normalizePlayer, pickTopOffense, pickTopDefense), build_cfbd.js
   (normalizeSeasonStats) *)

\* The statistics of a player.  A statline holds one count per statistic;
\* the normalisers below resolve the key names of the upstream row.
Stats ==
  {"passingYards", "passingTD", "completions", "interceptionsThrown", "fumblesLost",
   "rushingYards", "rushingTD", "receptions", "receivingYards", "receivingTD",
   "tackles", "tfl", "sacks", "defInterceptions", "passesDefended",
   "forcedFumbles", "fumblesRecovered", "defensiveTD"}

Line(f) == [s \in Stats |-> IF s \in DOMAIN f THEN f[s] ELSE 0]

ZeroLine == [s \in Stats |-> 0]

\* part_002:131 (part_004:79) with the interception penalty added to the score.
offScoreTurnoverBonus(p) ==
  p.passingYards * 4 + (p.rushingYards + p.receivingYards) * 10 + p.passingTD * 400
  + (p.rushingTD + p.receivingTD) * 600 + p.interceptionsThrown * 200 - p.fumblesLost * 200

\* part_002:131 (part_004:79), offScore in hundredths of a point.
offScore(p) ==
  p.passingYards * 4 + (p.rushingYards + p.receivingYards) * 10 + p.passingTD * 400
  + (p.rushingTD + p.receivingTD) * 600 - p.interceptionsThrown * 200 - p.fumblesLost * 200

\* part_002:132 (part_004:80) with tackles subtracted.
defScoreTackleCost(p) ==
  p.tfl * 100 + p.sacks * 200 + p.defInterceptions * 300 + p.passesDefended * 50
  + p.forcedFumbles * 200 + p.fumblesRecovered * 100 + p.defensiveTD * 600
  - p.tackles * 50

\* part_002:132 (part_004:80), defScore in hundredths of a point.
defScore(p) ==
  p.tackles * 50 + p.tfl * 100 + p.sacks * 200 + p.defInterceptions * 300
  + p.passesDefended * 50 + p.forcedFumbles * 200 + p.fumblesRecovered * 100
  + p.defensiveTD * 600

\* part_002:122-143 (part_004:70-91): score = offScore + defScore.
scorePlayers(p) == offScore(p) + defScore(p)

\* build-spotlight.js:342-348
scoreOff(p) ==
  p.passingYards + p.rushingYards + p.receivingYards
  + 20 * (p.passingTD + p.rushingTD + p.receivingTD)

\* build-spotlight.js:349-359, in halves of a point.
scoreDef(p) ==
  2 * p.tackles + 4 * p.sacks + 3 * p.tfl + 8 * p.defInterceptions
  + 4 * p.passesDefended + 4 * p.forcedFumbles

\* build-cfbd.mjs:236, _pass in tenths of a point.
passScore(p) ==
  10 * p.passingYards + 200 * p.passingTD - 450 * p.interceptionsThrown
  + 4 * p.completions

\* build-cfbd.mjs:237
rushScore(p) == p.rushingYards + 15 * p.rushingTD + 2 * p.receptions

\* build-cfbd.mjs:238
recvScore(p) == p.receivingYards + 15 * p.receivingTD + 5 * p.receptions

\* build-cfbd.mjs:256-265
pickTopDefenseScore(p) ==
  p.tackles + 8 * p.tfl + 12 * p.sacks + 12 * p.defInterceptions
  + 7 * p.passesDefended + 10 * p.forcedFumbles + 10 * p.fumblesRecovered

OffensiveScorers == {"offScore", "scoreOff", "_pass", "_rush", "_recv"}
Scorers == OffensiveScorers \cup {"scorePlayers", "scoreDef", "_defScore"}

Score(sc, p) ==
  CASE sc = "offScore" -> offScore(p)
    [] sc = "scorePlayers" -> scorePlayers(p)
    [] sc = "scoreOff" -> scoreOff(p)
    [] sc = "scoreDef" -> scoreDef(p)
    [] sc = "_pass" -> passScore(p)
    [] sc = "_rush" -> rushScore(p)
    [] sc = "_recv" -> recvScore(p)
    [] OTHER -> pickTopDefenseScore(p)

\* The statistics a scorer adds with a positive weight.
PositiveWeighted(sc) ==
  LET off == {"passingYards", "rushingYards", "receivingYards", "passingTD", "rushingTD",
              "receivingTD"}
      def == {"tackles", "tfl", "sacks", "defInterceptions", "passesDefended",
              "forcedFumbles", "fumblesRecovered", "defensiveTD"}
  IN  CASE sc = "offScore" -> off
        [] sc = "scorePlayers" -> off \cup def
        [] sc = "scoreOff" -> off
        [] sc = "scoreDef" -> def \ {"fumblesRecovered", "defensiveTD"}
        [] sc = "_pass" -> {"passingYards", "passingTD", "completions"}
        [] sc = "_rush" -> {"rushingYards", "rushingTD", "receptions"}
        [] sc = "_recv" -> {"receivingYards", "receivingTD", "receptions"}
        [] OTHER -> def \ {"defensiveTD"}

Turnovers == {"interceptionsThrown", "fumblesLost"}

ScoreLines ==
  { ZeroLine,
    Line([passingYards |-> 200, passingTD |-> 1, completions |-> 15,
          interceptionsThrown |-> 1]),
    Line([rushingYards |-> 80, rushingTD |-> 1, receptions |-> 2, receivingYards |-> 10,
          fumblesLost |-> 1]),
    Line([tackles |-> 7, tfl |-> 1, sacks |-> 1, passesDefended |-> 2]) }

ScoreSteps == {1, 3}

\* Two statlines are scored: p, and p with `by` more of one statistic.
ScoreStart ==
  /\ script = "idle"
  /\ script' = "score"
  /\ \E sc \in Scorers, p \in ScoreLines, st \in Stats, by \in ScoreSteps :
       env' = [scorer |-> sc, line |-> p, stat |-> st, by |-> by]
  /\ pc' = "main"
  /\ UNCHANGED <<disk, static, loc, outcome, exitCode, tried, before, runs>>

ScoreApply ==
  /\ script = "score" /\ pc = "main"
  /\ loc' = [lo |-> Score(env.scorer, env.line),
             hi |-> Score(env.scorer,
                          [env.line EXCEPT ![env.stat] = env.line[env.stat] + env.by])]
  /\ Finish("Scored", 0)
  /\ UNCHANGED <<disk, static, script, env, tried, before, runs>>

\* A value of an upstream row: a number, a numeric string, or no such key.
Num(n) == [kind |-> "number", n |-> n]
Str(n) == [kind |-> "string", n |-> n]
Absent == [kind |-> "absent", n |-> 0]

\* A slot of a normalised row.
Slot(n) == [present |-> TRUE, n |-> n]
NoSlot == [present |-> FALSE, n |-> 0]

RowKeys ==
  {"rushingYards", "rushing_yards", "rush_yds", "rushYds", "rushYards", "yards_rushing",
   "tackles", "totalTackles", "tot_tackles", "totl"}

\* A row that carries one value, under one key.
RowWith(key, val) == [q \in RowKeys |-> IF q = key THEN val ELSE Absent]

\* a ?? b ?? c: the first key of the list that the row carries.
RECURSIVE Coalesce(_, _)
Coalesce(row, keys) ==
  IF keys = <<>> THEN Absent
  ELSE IF row[Head(keys)].kind # "absent" THEN row[Head(keys)]
  ELSE Coalesce(row, Tail(keys))

Normalizers == {"normalizePlayer", "normalizeSeasonStats", "flatGamePlayers"}
Slots == {"rushing", "tackles"}

\* The keys flatGamePlayers reads, without rush_yds.
AliasesNoRushYds(nz, slot) ==
  CASE nz = "normalizePlayer" /\ slot = "rushing" -> <<"rushingYards", "rush_yds", "rushYds">>
    [] nz = "normalizePlayer" -> <<"tackles", "tot_tackles", "totalTackles", "totl">>
    [] nz = "normalizeSeasonStats" /\ slot = "rushing" ->
         <<"rushingYards", "rushYards", "rush_yds">>
    [] nz = "normalizeSeasonStats" -> <<"tackles", "totalTackles", "tot_tackles">>
    [] slot = "rushing" -> <<"rushingYards", "rushing_yards", "yards_rushing">>
    [] OTHER -> <<"tackles", "totalTackles", "tot_tackles">>

\* The keys a normaliser reads for a slot, canonical key first:
\* build-cfbd.mjs:169,175; build_cfbd.js:79,84; part_002:194,199.
Aliases(nz, slot) ==
  CASE nz = "normalizePlayer" /\ slot = "rushing" -> <<"rushingYards", "rush_yds", "rushYds">>
    [] nz = "normalizePlayer" -> <<"tackles", "tot_tackles", "totalTackles", "totl">>
    [] nz = "normalizeSeasonStats" /\ slot = "rushing" ->
         <<"rushingYards", "rushYards", "rush_yds">>
    [] nz = "normalizeSeasonStats" -> <<"tackles", "totalTackles", "tot_tackles">>
    [] slot = "rushing" -> <<"rushingYards", "rushing_yards", "rush_yds", "yards_rushing">>
    [] OTHER -> <<"tackles", "totalTackles", "tot_tackles">>

\* part_002:21: null, '' and NaN give 0, anything else Number(x).
toN(x) == IF x.kind = "absent" THEN 0 ELSE x.n

\* build_cfbd.js:67-71: null stays null.
cleanNumber(x) == IF x.kind = "absent" THEN NoSlot ELSE Slot(x.n)

\* The slot of the normalised row: +(a ?? b ?? 0) in normalizePlayer,
\* cleanNumber(a ?? b) in normalizeSeasonStats (which drops null slots),
\* toN(a ?? b) in flatGamePlayers.
Normalize(nz, slot, row) ==
  LET v == Coalesce(row, Aliases(nz, slot))
  IN  CASE nz = "normalizePlayer" -> Slot(IF v.kind = "absent" THEN 0 ELSE v.n)
        [] nz = "normalizeSeasonStats" -> cleanNumber(v)
        [] OTHER -> Slot(toN(v))

RowValues == {Num(120), Str(120), Num(0), Num(35)}

\* One value is normalised twice: under the key the row uses, and under the
\* canonical key of the slot.
NormalizeStart ==
  /\ script = "idle"
  /\ script' = "normalize"
  /\ \E nz \in Normalizers, slot \in Slots, key \in RowKeys \cup {"none"},
        val \in RowValues :
       env' = [normalizer |-> nz, slot |-> slot, key |-> key, val |-> val]
  /\ pc' = "main"
  /\ UNCHANGED <<disk, static, loc, outcome, exitCode, tried, before, runs>>

NormalizeApply ==
  /\ script = "normalize" /\ pc = "main"
  /\ loc' = [out |-> Normalize(env.normalizer, env.slot, RowWith(env.key, env.val)),
             canon |-> Normalize(env.normalizer, env.slot,
                                 RowWith(Aliases(env.normalizer, env.slot)[1], env.val))]
  /\ Finish("Normalized", 0)
  /\ UNCHANGED <<disk, static, script, env, tried, before, runs>>

ScoreNext == ScoreStart \/ ScoreApply \/ NormalizeStart \/ NormalizeApply \/ Exit

ScoreInit == FetchInit

SpecScore == ScoreInit /\ [][ScoreNext]_vars

----------------------------------------------------------------------------
(* src/unnamed/part_002, part_003, part_004: the game-week spotlight builds *)

MaxBuilds == 4

WeekBuilds == {"part_002", "part_003", "part_004"}

\* One player of a stats feed, as flatGamePlayers / aggregateSeason /
\* aggregateGameWeek / flatSeason shape it: name, position and statline.
WeekPlayer(k, line) == [name |-> Nm(k), pos |-> PosOf(k), line |-> line]

\* scorePlayers over a list, in hundredths of a point: part_002:122-143 and
\* part_004:70-91 add offScore and defScore, part_003:93-101 scores the offensive
\* statistics only.
scoreList(rev, list) ==
  [i \in 1..Len(list) |->
     [name |-> list[i].name, pos |-> list[i].pos,
      v |-> IF rev = "part_003" THEN offScore(list[i].line)
            ELSE scorePlayers(list[i].line)]]

\* part_002:102-110 (part_003:76-82, part_004:50-58); espn_map.json is absent.
sideOf(pos) ==
  IF pos \in {"QB", "RB", "FB", "WR", "TE", "OL", "C", "G", "T"} THEN "OFF" ELSE "DEF"

\* part_002:111-120
splitBySide(players, side) ==
  FilterSeq(players, {p \in Range(players) : sideOf(p.pos) = side})

\* part_002:63 (part_003:49, part_004:258): arr.sort(...).slice(0,3)
pick3(arr) == Take(TopK, sortDesc(arr))

\* part_002:214-230: the card of a player; the model keeps the score the
\* player was ranked by next to it.
toCard(p) == [Row(NoId, NoId, NoId, p.name, p.pos, "") EXCEPT !.score = p.v]

cards(list) == [i \in 1..Len(list) |-> toCard(list[i])]

\* part_002:287-291
RECURSIVE dedupeByName(_)
dedupeByName(list) ==
  IF list = <<>> THEN <<>>
  ELSE <<Head(list)>>
       \o dedupeByName(FilterSeq(Tail(list), {p \in Range(list) : p.name # Head(list).name}))

\* part_002:292-302 (part_004:214-224; part_003:122-132 sorts the pool by the
\* `score` key, which no card carries, and so leaves its order).  The pool is
\* not empty.
chooseFeatured(pool, h) ==
  LET eligible == FilterSeq(pool, {p \in Range(pool) : h.counts[p.name.k] < 2})
      list == IF eligible # <<>> THEN eligible ELSE pool
  IN  IF Len(list) > 1 /\ list[1].name = h.last THEN list[2] ELSE list[1]

QbLine == Line([passingYards |-> 200, passingTD |-> 1, completions |-> 15])
RbLine == Line([rushingYards |-> 80, rushingTD |-> 1])
WrLine == Line([receptions |-> 4, receivingYards |-> 60])
LbLine == Line([tackles |-> 7, sacks |-> 1])

\* The players of an upstream answer, in upstream order.  In the third feed
\* the quarterback has thrown an interception and gained nothing, and the
\* linebacker has played without a counted statistic.
WeekFeeds ==
  { <<>>,
    <<WeekPlayer(1, QbLine)>>,
    <<WeekPlayer(1, QbLine), WeekPlayer(2, RbLine)>>,
    <<WeekPlayer(1, Line([interceptionsThrown |-> 1])), WeekPlayer(3, ZeroLine),
      WeekPlayer(2, RbLine)>>,
    <<WeekPlayer(2, RbLine), WeekPlayer(1, QbLine), WeekPlayer(4, WrLine),
      WeekPlayer(3, LbLine)>> }

WeekStart ==
  /\ script = "idle"
  /\ runs < MaxBuilds
  /\ runs' = runs + 1
  /\ \E rev \in WeekBuilds : script' = rev
  /\ pc' = "main"
  /\ UNCHANGED <<disk, static, env, loc, outcome, exitCode, tried, before>>

\* main of part_002:34-84, part_003:27-64, part_004:227-281.  A missing CFBD_KEY
\* (part_002, part_003) or a request that fails throws, and main().catch exits 1
\* with nothing written.  Without a completed game there is no week and no
\* last-game request.
WeekMain ==
  /\ script \in WeekBuilds /\ pc = "main"
  /\ \E res \in {"ok", "nokey", "http"}, played \in BOOLEAN,
        gp \in WeekFeeds, sp \in WeekFeeds :
       LET scoredLast == scoreList(script, IF played THEN gp ELSE <<>>)
           scoredSeason == scoreList(script, sp)
           positive(list) == FilterSeq(list, {p \in Range(list) : p.v > 1})
           lastPlayers == IF script = "part_004" THEN positive(scoredLast) ELSE scoredLast
           seasonPlayers == IF script = "part_004" THEN positive(scoredSeason)
                            ELSE scoredSeason
           base == IF script = "part_004" /\ Len(lastPlayers) < 3 THEN seasonPlayers
                   ELSE lastPlayers
           ol == splitBySide(base, "OFF")
           dl == splitBySide(base, "DEF")
           os == splitBySide(seasonPlayers, "OFF")
           ds == splitBySide(seasonPlayers, "DEF")
           topOL == cards(IF script = "part_002" /\ ol = <<>> THEN pick3(os) ELSE pick3(ol))
           topDL == cards(IF script = "part_002" /\ dl = <<>> THEN pick3(ds) ELSE pick3(dl))
           topOS == cards(pick3(os))
           topDS == cards(pick3(ds))
           pool == dedupeByName(topOL \o topOS \o topDL \o topDS)
       IN  /\ (res # "ok" => gp = <<>> /\ sp = <<>> /\ ~played)
           /\ (~played => gp = <<>>)
           /\ (res = "nokey" => script # "part_004")
           /\ IF res # "ok"
              THEN /\ Finish("Failed", 1)
                   /\ UNCHANGED <<spot, featured, hist, loc>>
              ELSE /\ spot' = [b \in Buckets |->
                                 CASE b = "offense_last" -> topOL
                                   [] b = "defense_last" -> topDL
                                   [] b = "offense_season" -> topOS
                                   [] OTHER -> topDS]
                   /\ IF pool = <<>>
                      THEN /\ UNCHANGED <<featured, hist>>
                           /\ loc' = [pool |-> pool, hist |-> hist, picked |-> FALSE]
                      ELSE LET pick == chooseFeatured(pool, hist)
                           IN  /\ featured' = Featured("object", <<pick>>)
                               /\ hist' = Hist(pick.name,
                                               [hist.counts EXCEPT ![pick.name.k] = @ + 1])
                               /\ loc' = [pool |-> pool, hist |-> hist, picked |-> TRUE]
                   /\ Finish("Published", 0)
  /\ UNCHANGED <<roster, rosterMeta, buildMeta, provCache, fixture, uka, script, env,
                 tried, before, runs>>

WeekNext == WeekStart \/ WeekMain \/ Exit

WeekInit == FetchInit

SpecWeek == WeekInit /\ [][WeekNext]_vars

----------------------------------------------------------------------------
(* src/scripts/spotlight-client.js: hydrate() of the spotlight client, in its
   two revisions (734-981 and 1450-1598) *)

MaxHydrates == 4

\* SPOTLIGHT_SOURCES (spotlight-client.js:5-11)
NumSources == 5

\* The page state of the client: the `hydrating` flag (696), the number of
\* hydrate() executions that have passed the guard and not yet left, the
\* source the loop is at, and the calls the guard turned away.
Client(hydrating, active, source, ignored) ==
  [hydrating |-> hydrating, active |-> active, source |-> source, ignored |-> ignored]

\* spotlight-client.js:734-737: the guard and the flag are one synchronous step.
HydrateCall ==
  IF loc.hydrating
  THEN /\ loc' = [loc EXCEPT !.ignored = @ + 1]
       /\ UNCHANGED pc
  ELSE /\ loc' = [loc EXCEPT !.hydrating = TRUE, !.active = @ + 1]
       /\ pc' = "static"

\* hydrate() without its try/finally: the flag is cleared at the end of the
\* function body only.
HydrateExitNoFinally(path) ==
  /\ loc' = [loc EXCEPT !.hydrating = IF path = "normal" THEN FALSE ELSE @,
                        !.active = @ - 1, !.source = 0]
  /\ pc' = "idle"
  /\ outcome' = path

\* spotlight-client.js:977-979 (1594-1596): every way out of the try block,
\* return or throw, runs `hydrating = false`.
HydrateExit(path) ==
  /\ loc' = [loc EXCEPT !.hydrating = FALSE, !.active = @ - 1, !.source = 0]
  /\ pc' = "idle"
  /\ outcome' = path

\* spotlight-client.js:989 (1605): the page is ready and hydrates once.
ClientLoad ==
  /\ script = "idle"
  /\ script' = "client"
  /\ \E rev \in {"first", "second"} : env' = [rev |-> rev]
  /\ loc' = Client(TRUE, 1, 0, 0)
  /\ pc' = "static"
  /\ runs' = 1
  /\ UNCHANGED <<disk, static, outcome, exitCode, tried, before>>

\* spotlight-client.js:983-987 (1599-1603): an hc:spotlight:hydrate event, at
\* any moment after the page is ready.
HydrateEvent ==
  /\ script = "client"
  /\ runs < MaxHydrates
  /\ runs' = runs + 1
  /\ HydrateCall
  /\ UNCHANGED <<disk, static, script, env, outcome, exitCode, tried, before>>

\* spotlight-client.js:740-747: the static preload settles; a rejection is
\* caught and noted.
AwaitStatic ==
  /\ script = "client" /\ pc = "static"
  /\ pc' = IF env.rev = "first" THEN "meta" ELSE "roster"
  /\ UNCHANGED <<disk, static, script, env, loc, outcome, exitCode, tried, before, runs>>

\* spotlight-client.js:749-765, first revision only: data/meta.json of
\* another season ends the execution early; applyFilter may throw.
AwaitMeta ==
  /\ script = "client" /\ pc = "meta"
  /\ \E r \in {"ok", "mismatch", "throws"} :
       CASE r = "ok" -> pc' = "roster" /\ UNCHANGED <<loc, outcome>>
         [] r = "mismatch" -> HydrateExit("meta-mismatch")
         [] OTHER -> HydrateExit("thrown")
  /\ UNCHANGED <<disk, static, script, env, exitCode, tried, before, runs>>

\* spotlight-client.js:767-794 (1465-1492): the roster is loaded; in the first
\* revision a roster of another season ends the execution early.
AwaitRoster ==
  /\ script = "client" /\ pc = "roster"
  /\ \E r \in {"ok", "mismatch", "throws"} :
       /\ (r = "mismatch" => env.rev = "first")
       /\ CASE r = "ok" -> /\ pc' = "lists"
                           /\ loc' = [loc EXCEPT !.source = 1]
                           /\ UNCHANGED outcome
            [] r = "mismatch" -> HydrateExit("roster-mismatch")
            [] OTHER -> HydrateExit("thrown")
  /\ UNCHANGED <<disk, static, script, env, exitCode, tried, before, runs>>

\* spotlight-client.js:807-976 (1494-1593): one source of the loop is read,
\* from a preloaded bag or by an awaited fetchList; after the last one the cards
\* are finalised and applyFilter runs.
AwaitList ==
  /\ script = "client" /\ pc = "lists"
  /\ \E r \in {"ok", "throws"} :
       IF r = "throws" THEN HydrateExit("thrown")
       ELSE IF loc.source = NumSources THEN HydrateExit("normal")
       ELSE /\ loc' = [loc EXCEPT !.source = @ + 1]
            /\ UNCHANGED <<pc, outcome>>
  /\ UNCHANGED <<disk, static, script, env, exitCode, tried, before, runs>>

ClientInit == FetchInit

\* One continuation of the execution in progress.
HydrateStep == AwaitStatic \/ AwaitMeta \/ AwaitRoster \/ AwaitList

ClientNext == ClientLoad \/ HydrateEvent \/ HydrateStep

\* Every awaited promise settles (fetch answers or fails) and the event loop
\* runs the continuation of a settled promise.
SpecClient == ClientInit /\ [][ClientNext]_vars /\ WF_vars(HydrateStep)

----------------------------------------------------------------------------
(* Properties *)

Done == pc = "done"

IsPrefix(s, t) == Len(s) <= Len(t) /\ \A i \in 1..Len(s) : s[i] = t[i]

ChainOrder == <<"cfbd", "espn", "cfbfastr">>

RosterOrder == <<"api", "page", "cache">>

\* The player a spotlight row stands for: its resolved id, else the tracked
\* player of its name.
resolvedId(row) ==
  IF resolveId(row) # NoId THEN resolveId(row) ELSE row.name.k

\* validate_datasets.js:175-184: the row's player is in the roster, by id or by
\* normalised name.
isMember(row) == resolvedId(row) \in roster.members \cup {Filler}

NoDuplicates(rows) ==
  \A i, j \in 1..Len(rows) : resolvedId(rows[i]) = resolvedId(rows[j]) => i = j

\* C1: a roster snapshot whose season differs from the target season is never
\* published.  Checked where a run has just written roster.json from fetched
\* players: the season their payload embeds is the target season, or none.
C1_SeasonLock ==
  /\ (script = "roster" /\ Done /\ outcome = "Published"
        => roster.from \in {TARGET_SEASON, NoSeason})
  /\ (script = "v3" /\ pc = "stats" /\ ~loc.cached
        => roster.from \in {TARGET_SEASON, NoSeason})

\* C2: a run that ends in Failed overwrites nothing: the roster, the roster
\* metadata, the spotlight files and the build metadata are what they were when
\* the run began.
C2_FailedOverwritesNothing ==
  Done /\ outcome = "Failed" => Published = before

\* C3: after a build that reads the roster has ended without failing, every row
\* of every spotlight file resolves to a member of the roster on disk.
C3_SpotlightInRoster ==
  script \in {"v3", "espnspot"} /\ Done /\ outcome # "Failed"
    => \A b \in Buckets : \A i \in 1..Len(spot[b]) : isMember(spot[b][i])

\* The roster on disk when the run began, with metadata of the target season.
CacheValidAtStart ==
  /\ before.roster.n > 0
  /\ before.rosterMeta.present
  /\ before.rosterMeta.season = TARGET_SEASON

\* A valid cache whose size is also in the range the v3 build accepts.
CacheUsableAtStart ==
  /\ CacheValidAtStart
  /\ before.roster.n >= ROSTER_MIN
  /\ before.roster.n <= ROSTER_MAX

\* C4: when every adapter has been exhausted the run restores the cache if a
\* cache exists and passes the season check, and fails otherwise.  For the ESPN
\* roster build the season's fixture counts as a cache; for the v3 build the
\* cache must also be of an accepted size.
C4_CacheRestoredIffValid ==
  /\ (script = "roster" /\ Done /\ tried = RosterOrder
        => /\ (outcome = "CacheRestored")
                <=> (CacheValidAtStart \/ isViableRoster(AsSnap(fixture)))
           /\ outcome \in {"CacheRestored", "Failed"})
  /\ (script = "v3" /\ pc \in {"stats", "done"}
      /\ loc.fault \in {"transport", "shape"} /\ ~loc.hit
        => (loc.cached <=> CacheUsableAtStart))

ExitsZeroOnFailure == {"cfbdroster", "cfbdspot"}

C6_PublishedNonEmpty ==
  script \in {"v3", "espnspot", "cfbdspot"} /\ Done /\ outcome = "Published"
    => \A b \in Buckets : spot[b] # <<>>

\* C7 as stated: adapters are tried strictly in preference order, a later one
\* only after every earlier one has failed.
C7_StrictPreferenceOrder ==
  /\ (script = "chain" => IsPrefix(tried, ChainOrder))
  /\ (script = "roster" => IsPrefix(tried, RosterOrder))

\* C7, amended: unless FALLBACK_MODE forces one adapter, which is then the only
\* one tried, adapters are tried in preference order, each after the failure of
\* all before it, and the last one tried supplies what is published.
C7_PreferenceOrder ==
  /\ (script = "chain" /\ env.mode = "" => IsPrefix(tried, ChainOrder))
  /\ (script = "chain" /\ env.mode # "" => IsPrefix(tried, <<env.mode>>))
  /\ (script = "chain" /\ Done /\ outcome = "Published"
        => tried # <<>> /\ loc.source = tried[Len(tried)])
  /\ (script = "roster" => IsPrefix(tried, RosterOrder))
  /\ (script = "roster" /\ pc = "main"
        => tried # <<>>
           /\ (loc.source = "cache" <=> tried[Len(tried)] = "cache")
           /\ (loc.source = "espn" <=> tried[Len(tried)] \in {"api", "page"}))

C7_Witness ==
  /\ script = "chain" /\ env.mode = "" /\ Done /\ outcome = "Published"
  /\ tried = ChainOrder /\ loc.source = "cfbfastr"

C9_NoDuplicatePlayers ==
  Done /\ outcome \in {"Published", "CacheRestored"}
    => \A b \in Buckets : NoDuplicates(spot[b])

\* C10: a payload of the wrong shape is handled like a failed transport: in a
\* chain with no forced adapter, an ESPN adapter that met one does not supply
\* what the chain publishes (the cfbfastR adapter is tried instead).
C10_ShapeFailureFallsBack ==
  script = "chain" /\ env.mode = "" /\ Done /\ outcome = "Published"
  /\ loc.source = "espn"
    => loc.fault # "shape"

Requests == Len(tried)

\* The attempts a fetch is configured to make before it gives up.
Configured ==
  CASE loc.fn = "retry" -> Len(loc.backoff)
    [] loc.fn = "fetchJSON" -> loc.retries + 1
    [] loc.fn = "get" -> GetAttempts
    [] OTHER -> 1

IsDefault ==
  CASE loc.fn = "retry" -> loc.backoff = DefaultBackoff
    [] loc.fn = "fetchJSON" -> loc.retries = DefaultRetries
    [] OTHER -> TRUE

C12_StrictMismatchAborts ==
  script = "roster" /\ env.strict /\ Done /\ outcome = "Published"
    => roster.from \in {TARGET_SEASON, NoSeason}

\* C13: an adapter never silently substitutes another season's data: the
\* roster that the cfbfastR adapter hands over as valid, and that the chain
\* publishes, is the CSV of the target year.
C13_NoSilentSeasonSubstitution ==
  script = "chain" /\ Done /\ outcome = "Published" /\ loc.source = "cfbfastr"
    => loc.y = TARGET_SEASON

\* C14: in the v3 build the published snapshot is overwritten only by a snapshot
\* that has passed validation: whenever a published file is no longer what it
\* was when the run began, the roster on disk passes the roster gate (target
\* season, or none embedded, and a size in range), every spotlight file is
\* non-empty and every spotlight row resolves to a member of that roster.
C14_OverwrittenOnlyByValidated ==
  script = "v3" /\ Published # before
    => /\ roster.from \in {TARGET_SEASON, NoSeason}
       /\ roster.n >= ROSTER_MIN /\ roster.n <= ROSTER_MAX
       /\ \A b \in Buckets : /\ spot[b] # <<>>
                             /\ \A i \in 1..Len(spot[b]) : isMember(spot[b][i])

\* C15: when the upstream answers with a roster of fewer than ROSTER_MIN players
\* (40, say) and the roster on disk is of the target season and of accepted
\* size, the run ends in CacheRestored with roster.json as it was.
C15_SmallRosterRestoresCache ==
  /\ (script = "roster" /\ Done /\ tried # RosterOrder /\ CacheUsableAtStart
      /\ loc.players.n > 0 /\ loc.players.n < ROSTER_MIN /\ loc.players.season = TARGET_SEASON
        => outcome = "CacheRestored" /\ Published.roster = before.roster)
  /\ (script = "v3" /\ Done /\ CacheUsableAtStart
      /\ loc.n > 0 /\ loc.n < ROSTER_MIN
        => outcome = "CacheRestored" /\ Published.roster = before.roster)

\* C16: when the ESPN spotlight build obtains a partial fresh result (both
\* requests answered, some of the four lists with rows and some without), the
\* run does not fail and every list that has fresh rows is published fresh.
C16_PartialKeepsFreshBuckets ==
  script = "espnspot" /\ Done /\ tried # <<>>
  /\ loc.season \in {"ok", "shape"} /\ loc.lastGame \in {"ok", "shape"}
  /\ (\E b \in Buckets : loc.lists[b] # <<>>)
  /\ (\E b \in Buckets : loc.lists[b] = <<>>)
    => /\ outcome # "Failed"
       /\ \A b \in Buckets : loc.lists[b] # <<>> => spot[b] = loc.lists[b]

\* A validator has run over the published files (not over the fixtures).
Validated == script \in Validators /\ Done /\ ~env.fixture

\* C17: a validator fails the run whenever the season or the teamId of the
\* published roster metadata differs from the configured constants.
C17_MetadataLock ==
  Validated /\ roster.n > 0 /\ rosterMeta.present
  /\ (rosterMeta.season # TARGET_SEASON \/ rosterMeta.teamId # TEAM_ID)
    => exitCode # 0

\* The roster has fewer than ROSTER_MIN or more than ROSTER_MAX players.
SizeOutOfRange == roster.n < ROSTER_MIN \/ roster.n > ROSTER_MAX

C19_IdCoverageFatal ==
  Validated /\ roster.n > 0 /\ roster.ids * 10 < 9 * roster.n => exitCode # 0

\* A spotlight file in which more than 5% of the entries are mismatches: the id
\* is not in the roster's id set and the name is not in its name set.
TooManyMismatches ==
  \E b \in Buckets : fileMismatches(spot[b], roster) * 20 > fileTotal(spot[b])

C21_BlacklistFatal ==
  Validated /\ roster.n > 0
  /\ (\/ Departed \in roster.members
      \/ \E b \in Buckets :
           \E i \in 1..Len(spot[b].rows) : isBlacklisted2(spot[b].rows[i].name))
    => exitCode # 0

\* C22: the build metadata written by the ESPN spotlight build records mode
\* "cache" when the run published the existing spotlight files (CacheRestored)
\* and "live" when it published freshly fetched leaders (Published).
C22_ModeRecordsSource ==
  script = "espnspot" /\ Done /\ outcome \in {"Published", "CacheRestored"}
    => /\ buildMeta.present
       /\ buildMeta.mode = (IF outcome = "CacheRestored" THEN "cache" ELSE "live")

\* C24: of two statlines that differ in one statistic a scorer weights
\* positively, the one with the larger value scores at least as much.
C24_PositiveStatMonotone ==
  script = "score" /\ Done /\ env.stat \in PositiveWeighted(env.scorer)
    => loc.hi >= loc.lo

C24_Witness ==
  /\ script = "score" /\ Done
  /\ env.scorer = "scorePlayers" /\ env.stat = "tackles" /\ env.by = 3
  /\ env.line.tackles = 7
  /\ loc.hi > loc.lo

\* C25: more interceptions thrown or fumbles lost, all else equal, never
\* raise an offensive score.
C25_TurnoverNeverRaises ==
  script = "score" /\ Done /\ env.scorer \in OffensiveScorers /\ env.stat \in Turnovers
    => loc.hi <= loc.lo

C25_Witness ==
  /\ script = "score" /\ Done
  /\ env.scorer = "offScore" /\ env.stat = "interceptionsThrown"
  /\ env.line.interceptionsThrown = 1
  /\ loc.hi < loc.lo

C23_NoNonPositiveScoreRanked ==
  script \in WeekBuilds /\ Done /\ outcome = "Published"
    => \A b \in Buckets : \A i \in 1..Len(spot[b]) : spot[b][i].score > 0

\* C30: across consecutive builds, when the candidate pool holds two players
\* or more the featured pick is not the player the previous build recorded as
\* last_featured.
C30_FeaturedRotates ==
  script \in WeekBuilds /\ Done /\ outcome = "Published" /\ Len(loc.pool) >= 2
    => featured.rows[1].name # loc.hist.last

\* C28: a provider request of the cached spotlight build is answered from the
\* cache, upstream not called, exactly when a cached copy younger than six
\* hours exists and the provider is not bypassed; in a run started with
\* --purge no request is answered that way.
C28_SkipExactlyWhenFreshAndNotForced ==
  script = "v3" /\ pc \in {"stats", "done"} /\ loc # NoLoc
    => \A i \in 1..Len(loc.fetches) :
         /\ loc.fetches[i].skipped <=> (loc.fetches[i].young /\ ~loc.fetches[i].bypass)
         /\ (env.flagPurge => ~loc.fetches[i].skipped)

C28_Witness ==
  /\ script = "v3" /\ Done /\ ~env.flagPurge
  /\ Len(loc.fetches) >= 2
  /\ ~loc.fetches[1].skipped
  /\ loc.fetches[2].skipped

\* C26: a stat row that carries no id and names a roster player is resolved by
\* its name and kept: the player is in the output of the build.
C26_NameMatchRetained ==
  script = "v3" /\ Done /\ outcome \in {"Published", "CacheRestored"}
    => \A k \in loc.byName :
         \/ \E b \in Buckets : \E i \in 1..Len(spot[b]) : spot[b][i].name.k = k
         \/ \E i \in 1..Len(featured.rows) : featured.rows[i].name.k = k

Hydrating == script = "client" /\ loc.hydrating

\* C29: the hydrating flag is set exactly while one hydrate() execution is in
\* progress, executions never overlap, and every way out (normal end, the
\* season-mismatch returns, a thrown error) clears the flag, so the flag never
\* stays set and later requests are served.
C29_HydratingGuard ==
  /\ [](script = "client" => /\ loc.active <= 1
                             /\ (loc.hydrating <=> loc.active = 1)
                             /\ (loc.hydrating <=> pc # "idle"))
  /\ (Hydrating ~> ~Hydrating)

C29_Witness ==
  /\ script = "client" /\ pc = "static"
  /\ outcome = "thrown"
  /\ loc.ignored >= 1
  /\ loc.hydrating /\ loc.active = 1

====
